---- MODULE Spec2Model ----
(***************************************************************************)
(* A model of the Telegram auto-forward bots of this repository:           *)
(*   src/app.py      the rule-based bot (SQL rule store, many rules)       *)
(*   src/bot.py      the single-configuration bot (config.json)            *)
(*   src/src/app.py  the memory-based bot (in-process state dict)          *)
(* Python strings are sequences of one-character strings, so that          *)
(* str.lower, str.strip, str.replace, `in` and split are computed, not     *)
(* assumed.  None is a value of its own.                                   *)
(***************************************************************************)
EXTENDS Integers, Sequences, FiniteSets, TLC

(* ------------------------------------------------------------------ *)
(* Python values                                                      *)
(* ------------------------------------------------------------------ *)

\* Python's None, kept apart from every string (no string holds this item).
None == <<"<None>">>

\* Python truthiness of an Optional[str]: None and "" are falsy.
Truthy(s) == s # None /\ s # <<>>

\* `x or ""` for an Optional[str].
OrEmpty(s) == IF s = None THEN <<>> ELSE s

UpperLetters ==
  <<"A","B","C","D","E","F","G","H","I","J","K","L","M",
    "N","O","P","Q","R","S","T","U","V","W","X","Y","Z">>

LowerLetters ==
  <<"a","b","c","d","e","f","g","h","i","j","k","l","m",
    "n","o","p","q","r","s","t","u","v","w","x","y","z">>

Digits == <<"0","1","2","3","4","5","6","7","8","9">>

UpperSet == {UpperLetters[i] : i \in 1..26}
LowerSet == {LowerLetters[i] : i \in 1..26}
DigitSet == {Digits[i] : i \in 1..10}

IsUpper(c) == c \in UpperSet
IsLower(c) == c \in LowerSet
IsDigitCh(c) == c \in DigitSet
IsSpaceCh(c) == c \in {" ", "\n", "\t"}

\* One character of str.lower().
LowerOf == [c \in UpperSet |-> LowerLetters[CHOOSE i \in 1..26 : UpperLetters[i] = c]]

LowerCh(c) == IF c \in UpperSet THEN LowerOf[c] ELSE c

\* str.lower()
Lower(s) == [i \in 1..Len(s) |-> LowerCh(s[i])]

\* s[i:i+len(p)] == p   (i is 1-based)
MatchAt(s, p, i) ==
  /\ i + Len(p) - 1 <= Len(s)
  /\ \A k \in 1..Len(p) : s[i + k - 1] = p[k]

\* Python `p in s` (the empty string is in every string).
Contains(s, p) == \E i \in 1..(Len(s) + 1) : MatchAt(s, p, i)

\* str.startswith
StartsWith(s, p) == MatchAt(s, p, 1)

RECURSIVE LStrip(_)
LStrip(s) == IF s # <<>> /\ IsSpaceCh(Head(s)) THEN LStrip(Tail(s)) ELSE s

RECURSIVE RStrip(_)
RStrip(s) ==
  IF s # <<>> /\ IsSpaceCh(s[Len(s)]) THEN RStrip(SubSeq(s, 1, Len(s) - 1)) ELSE s

\* str.strip()
Strip(s) == RStrip(LStrip(s))

\* str.lstrip('@')
RECURSIVE LStripAt(_)
LStripAt(s) == IF s # <<>> /\ Head(s) = "@" THEN LStripAt(Tail(s)) ELSE s

\* str.replace(old, new) for a non-empty old: every non-overlapping
\* occurrence found in one left-to-right scan.
RECURSIVE ReplaceFrom(_, _, _, _)
ReplaceFrom(s, old, new, i) ==
  IF i > Len(s) THEN <<>>
  ELSE IF MatchAt(s, old, i) THEN new \o ReplaceFrom(s, old, new, i + Len(old))
  ELSE <<s[i]>> \o ReplaceFrom(s, old, new, i + 1)

\* str.replace("", new): new before every character and at the end.
RECURSIVE Interleave(_, _)
Interleave(s, new) ==
  IF s = <<>> THEN new ELSE new \o <<Head(s)>> \o Interleave(Tail(s), new)

\* A replace that stops after the first occurrence.
StrReplace_FirstOnly(s, old, new) ==
  IF old = <<>> THEN new \o s
  ELSE IF \E i \in 1..Len(s) : MatchAt(s, old, i)
       THEN LET i == CHOOSE k \in 1..Len(s) :
                       MatchAt(s, old, k) /\ \A j \in 1..(k - 1) : ~MatchAt(s, old, j)
            IN  SubSeq(s, 1, i - 1) \o new \o SubSeq(s, i + Len(old), Len(s))
       ELSE s

\* str.replace(old, new)
StrReplace(s, old, new) ==
  IF old = <<>> THEN Interleave(s, new) ELSE ReplaceFrom(s, old, new, 1)

\* str.split(sep) for a one-character separator: the list of fields.
RECURSIVE SplitFrom(_, _, _, _)
SplitFrom(s, sep, i, cur) ==
  IF i > Len(s) THEN <<cur>>
  ELSE IF s[i] = sep THEN <<cur>> \o SplitFrom(s, sep, i + 1, <<>>)
  ELSE SplitFrom(s, sep, i + 1, Append(cur, s[i]))

Split(s, sep) == SplitFrom(s, sep, 1, <<>>)

\* sep.join(parts)
RECURSIVE Join(_, _)
Join(parts, sep) ==
  IF parts = <<>> THEN <<>>
  ELSE IF Len(parts) = 1 THEN parts[1]
  ELSE parts[1] \o sep \o Join(Tail(parts), sep)

\* str(n) for an int: decimal digits, '-' for a negative number.
RECURSIVE NatStr(_)
NatStr(n) == IF n < 10 THEN <<Digits[n + 1]>> ELSE NatStr(n \div 10) \o <<Digits[(n % 10) + 1]>>

IntStr(n) == IF n < 0 THEN <<"-">> \o NatStr(0 - n) ELSE NatStr(n)

\* The elements of a sequence.
Range(f) == {f[i] : i \in DOMAIN f}

\* A Python str literal written as a TLA+ sequence, for the fixed words below.
S_http == <<"h","t","t","p">>
S_tme == <<"t",".","m","e">>

(* ------------------------------------------------------------------ *)
(* Inbound Telegram messages                                          *)
(* ------------------------------------------------------------------ *)

\* The chats updates come from: id, and username (None for a chat without one).
ChanChat == [id |-> -100111, username |-> <<"C","h","a","n">>]
PlainChat == [id |-> -100333, username |-> None]
Chats == {ChanChat, PlainChat}

T_big_SALE_today ==
  <<"b","i","g"," ","S","A","L","E"," ","t","o","d","a","y">>
T_buy_spam_now == <<"b","u","y"," ","s","p","a","m"," ","n","o","w">>
T_Spam_sale == <<"S","p","a","m"," ","s","a","l","e">>
T_foo_foo == <<"f","o","o"," ","f","o","o">>

Texts == {T_big_SALE_today, T_buy_spam_now, T_Spam_sale, T_foo_foo}

\* The attachment of a message, as the handlers test it: "photo" (photo or
\* video), "document" (document, audio, voice or animation), "sticker",
\* "other" (an attachment none of the handlers names: poll, dice, video note)
\* and "none".
Msg(chat, mid, text, caption, media, service, fwd, reply) ==
  [chat |-> chat, message_id |-> mid, text |-> text, caption |-> caption,
   media |-> media, service |-> service, forward_date |-> fwd,
   reply_to_message |-> reply]

\* Messages as Telegram delivers them: a text message has no attachment and
\* no caption, only photo/video/document/... carry a caption, a service
\* message carries none of them.
ContentShapes ==
  {<<t, None, "none", FALSE>> : t \in Texts}
    \cup {<<None, T_big_SALE_today, "photo", FALSE>>, <<None, None, "photo", FALSE>>,
          <<None, None, "document", FALSE>>, <<None, None, "sticker", FALSE>>,
          <<None, None, "other", FALSE>>, <<None, None, "none", TRUE>>}

\* The posts of the channel in every shape, a second post of the channel,
\* and a post of a chat that has no handle.
Messages ==
  {Msg(ChanChat, 1, sh[1], sh[2], sh[3], sh[4], FALSE, FALSE) : sh \in ContentShapes}
    \cup {Msg(ChanChat, 2, T_big_SALE_today, None, "none", FALSE, FALSE, FALSE),
          Msg(PlainChat, 1, T_big_SALE_today, None, "none", FALSE, FALSE, FALSE)}

\* No message handled yet.
NoMsg == Msg([id |-> 0, username |-> None], 0, None, None, "none", FALSE, FALSE, FALSE)

\* message.photo or message.video
HasPhotoVideo(m) == m.media = "photo"
\* photo, video, document, animation, audio or voice (src/app.py line 1012)
HasMedia6(m) == m.media \in {"photo", "document"}
\* the same or a sticker (src/app.py lines 959, 1016, 1037)
HasMedia7(m) == m.media \in {"photo", "document", "sticker"}

(* ------------------------------------------------------------------ *)
(* src/app.py: the rule store                                         *)
(* ------------------------------------------------------------------ *)

FORCE_ADMIN_ID == 1695450646

\* A check that lets every chat pass.
is_admin_Anyone(user_id) == user_id = user_id

\* is_admin(user_id)
is_admin(user_id) == user_id = FORCE_ADMIN_ID

\* A row whose FORWARDING_MODE defaults to FORWARD.
ForwardRule_Forwarding(id, rule_name) ==
  [id |-> id, rule_name |-> rule_name,
   SOURCE_CHAT_ID |-> None, DESTINATION_CHAT_ID |-> None,
   IS_ACTIVE |-> TRUE, FORWARDING_MODE |-> "FORWARD", FORWARD_DELAY_SECONDS |-> 0,
   PREFIX_TEXT |-> <<>>, SUFFIX_TEXT |-> <<>>,
   BLOCK_LINKS |-> FALSE, BLOCK_USERNAMES |-> FALSE, BLOCK_MEDIA |-> FALSE,
   BLOCK_FORWARDS |-> FALSE, REMOVE_WEB_PREVIEW |-> FALSE,
   REMOVE_BUTTONS |-> TRUE, REMOVE_CAPTION |-> FALSE,
   SILENT_FORWARDING |-> FALSE, BLOCK_SERVICE_MESSAGES |-> TRUE,
   BLOCK_REPLIES |-> FALSE,
   TEXT_REPLACEMENTS |-> <<>>, WORD_BLACKLIST |-> <<>>, WORD_WHITELIST |-> <<>>]

\* A row of forward_rules as ForwardRule(rule_name=...) inserts it: the
\* column defaults.  TEXT_REPLACEMENTS is the dict as the sequence of its
\* (find, replace) items in insertion order.
ForwardRule(id, rule_name) ==
  [id |-> id, rule_name |-> rule_name,
   SOURCE_CHAT_ID |-> None, DESTINATION_CHAT_ID |-> None,
   IS_ACTIVE |-> TRUE, FORWARDING_MODE |-> "COPY", FORWARD_DELAY_SECONDS |-> 0,
   PREFIX_TEXT |-> <<>>, SUFFIX_TEXT |-> <<>>,
   BLOCK_LINKS |-> FALSE, BLOCK_USERNAMES |-> FALSE, BLOCK_MEDIA |-> FALSE,
   BLOCK_FORWARDS |-> FALSE, REMOVE_WEB_PREVIEW |-> FALSE,
   REMOVE_BUTTONS |-> TRUE, REMOVE_CAPTION |-> FALSE,
   SILENT_FORWARDING |-> FALSE, BLOCK_SERVICE_MESSAGES |-> TRUE,
   BLOCK_REPLIES |-> FALSE,
   TEXT_REPLACEMENTS |-> <<>>, WORD_BLACKLIST |-> <<>>, WORD_WHITELIST |-> <<>>]

\* get_rule_by_id: whether the row exists, and the row.
HasRule(store, rule_id) == \E i \in DOMAIN store : store[i].id = rule_id
get_rule_by_id(store, rule_id) ==
  store[CHOOSE i \in DOMAIN store : store[i].id = rule_id]

\* save_rule_to_db: session.merge(rule) writes the row with the rule's id,
\* inserting it when no such row exists.
save_rule_to_db(store, rule) ==
  IF HasRule(store, rule.id)
  THEN [i \in DOMAIN store |-> IF store[i].id = rule.id THEN rule ELSE store[i]]
  ELSE Append(store, rule)

\* A delete that marks the row and leaves it in the table.
delete_rule_RowKept(store, rule_id) == store

\* session.delete(rule); session.commit()
delete_rule(store, rule_id) == SelectSeq(store, LAMBDA r : r.id # rule_id)

(* ------------------------------------------------------------------ *)
(* src/app.py: forward_message                                        *)
(* ------------------------------------------------------------------ *)

\* The entries of the list as typed, not trimmed.
source_list_Untrimmed(rule) == Split(OrEmpty(rule.SOURCE_CHAT_ID), ",")

\* source_list = [s.strip() for s in (rule.SOURCE_CHAT_ID or "").split(',')]
source_list(rule) ==
  LET parts == Split(OrEmpty(rule.SOURCE_CHAT_ID), ",")
  IN  [i \in DOMAIN parts |-> Strip(parts[i])]

\* The chat's username compared as written.
chat_username_AsWritten(m) == m.chat.username

\* chat_username_lower
chat_username_lower(m) ==
  IF Truthy(m.chat.username) THEN Lower(m.chat.username) ELSE None

\* The loop over source_list: an entry equal to str(chat.id), or an '@'
\* entry equal to the chat's username ignoring case.
is_match(rule, m) ==
  \E i \in DOMAIN source_list(rule) :
    LET s == source_list(rule)[i]
    IN  \/ s = IntStr(m.chat.id)
        \/ /\ StartsWith(s, <<"@">>)
           /\ chat_username_lower(m) = Lower(LStripAt(s))

\* The first loop without its IS_ACTIVE test.
IsMatchingRule_ActiveIgnored(rule, m) ==
  /\ Truthy(rule.DESTINATION_CHAT_ID)
  /\ is_match(rule, m)

\* The first loop without its DESTINATION_CHAT_ID test.
IsMatchingRule_DestinationIgnored(rule, m) ==
  /\ rule.IS_ACTIVE
  /\ is_match(rule, m)

\* The first loop of forward_message: whether the rule joins matching_rules.
IsMatchingRule(rule, m) ==
  /\ rule.IS_ACTIVE
  /\ Truthy(rule.DESTINATION_CHAT_ID)
  /\ is_match(rule, m)

\* text_to_process = message.text or message.caption or ""
text_to_process(m) ==
  IF Truthy(m.text) THEN m.text ELSE IF Truthy(m.caption) THEN m.caption ELSE <<>>

\* re.search(r'@[a-zA-Z0-9_]+', s)
IsWordCh(c) == IsUpper(c) \/ IsLower(c) \/ IsDigitCh(c) \/ c = "_"
HasMention(s) == \E i \in 1..(Len(s) - 1) : s[i] = "@" /\ IsWordCh(s[i + 1])

\* any(word in text_lower for word in words)
AnyWordIn(words, text_lower) == \E i \in DOMAIN words : Contains(text_lower, words[i])

is_pure_media(m) == HasMedia7(m) /\ ~(Truthy(m.text) \/ Truthy(m.caption))

\* A blacklist step that scans the text as written, not lower-cased.
BlacklistBlocks_CaseSensitive(rule, m) ==
  /\ rule.WORD_BLACKLIST # <<>>
  /\ AnyWordIn(rule.WORD_BLACKLIST, text_to_process(m))

\* The blacklist step (lines 967-969): TRUE when the rule is skipped.
BlacklistBlocks(rule, m) ==
  /\ rule.WORD_BLACKLIST # <<>>
  /\ AnyWordIn(rule.WORD_BLACKLIST, Lower(text_to_process(m)))

\* A whitelist step that lets every message through.
WhitelistBlocks_Off(rule, m) == rule # rule

\* The whitelist step (lines 971-973): TRUE when the rule is skipped.
WhitelistBlocks(rule, m) ==
  /\ rule.WORD_WHITELIST # <<>>
  /\ ~AnyWordIn(rule.WORD_WHITELIST, Lower(text_to_process(m)))

\* The rule-specific filters (lines 942-973), in order; TRUE when none of
\* them skips the rule.
PassesFilters(rule, m) ==
  LET text_lower == Lower(text_to_process(m))
  IN  /\ ~(rule.BLOCK_SERVICE_MESSAGES /\ m.service)
      /\ ~(rule.BLOCK_FORWARDS /\ m.forward_date)
      /\ ~(rule.BLOCK_REPLIES /\ m.reply_to_message)
      /\ ~(rule.BLOCK_MEDIA /\ is_pure_media(m))
      /\ ~(rule.BLOCK_LINKS /\ (Contains(text_lower, S_http) \/ Contains(text_lower, S_tme)))
      /\ ~(rule.BLOCK_USERNAMES /\ HasMention(text_lower))
      /\ ~BlacklistBlocks(rule, m)
      /\ ~WhitelistBlocks(rule, m)

\* The replacement loop (lines 981-985) over the items from index i on:
\* [text, modified].
RECURSIVE ReplaceLoop(_, _, _, _)
ReplaceLoop(items, i, text, modified) ==
  IF i > Len(items) THEN [text |-> text, modified |-> modified]
  ELSE IF Contains(text, items[i][1])
       THEN ReplaceLoop(items, i + 1, StrReplace(text, items[i][1], items[i][2]), TRUE)
       ELSE ReplaceLoop(items, i + 1, text, modified)

\* Text processing (lines 977-990): final_text and text_modified.
TextProcessing(rule, m) ==
  LET t0 == text_to_process(m)
      r1 == IF rule.TEXT_REPLACEMENTS # <<>> /\ t0 # <<>>
            THEN ReplaceLoop(rule.TEXT_REPLACEMENTS, 1, t0, FALSE)
            ELSE [text |-> t0, modified |-> FALSE]
  IN  IF Truthy(rule.PREFIX_TEXT) \/ Truthy(rule.SUFFIX_TEXT)
      THEN [text |-> OrEmpty(rule.PREFIX_TEXT) \o r1.text \o OrEmpty(rule.SUFFIX_TEXT),
            modified |-> TRUE]
      ELSE r1

\* force_copy without REMOVE_BUTTONS.
force_copy_ButtonsIgnored(rule, m) ==
  \/ rule.FORWARDING_MODE = "COPY"
  \/ TextProcessing(rule, m).modified
  \/ rule.REMOVE_CAPTION
  \/ rule.REMOVE_WEB_PREVIEW

\* force_copy (line 995)
force_copy(rule, m) ==
  \/ rule.FORWARDING_MODE = "COPY"
  \/ TextProcessing(rule, m).modified
  \/ rule.REMOVE_BUTTONS
  \/ rule.REMOVE_CAPTION
  \/ rule.REMOVE_WEB_PREVIEW

\* caption_to_send (lines 1010-1013)
caption_to_send(rule, m) ==
  IF rule.REMOVE_CAPTION /\ HasMedia6(m) THEN None ELSE TextProcessing(rule, m).text

\* caption_to_send and caption_to_send.strip()
NonBlank(s) == Truthy(s) /\ Strip(s) # <<>>

\* The final emptiness check (lines 1016-1019): TRUE when the rule is skipped.
SkippedAsEmpty(rule, m) ==
  /\ ~HasMedia7(m)
  /\ ~NonBlank(caption_to_send(rule, m))
  /\ ~(Truthy(m.text) \/ Truthy(m.caption))

\* The transport call the try block (lines 1021-1066) issues for a rule that
\* reached it: "send_message", "copy_message", "forward_message", or "none"
\* when no branch of the copy case applies.
TransportCall(rule, m) ==
  IF force_copy(rule, m)
  THEN IF Truthy(m.text) /\ ~Truthy(m.caption) /\ ~HasPhotoVideo(m)
       THEN IF NonBlank(caption_to_send(rule, m)) THEN "send_message" ELSE "none"
       ELSE IF HasMedia7(m) THEN "copy_message" ELSE "none"
  ELSE "forward_message"

\* What the second loop does for one matching rule: "skip" (a continue
\* before the try block) or the transport call.
Plan(rule, m) ==
  IF ~PassesFilters(rule, m) \/ SkippedAsEmpty(rule, m) THEN "skip"
  ELSE TransportCall(rule, m)

\* The text or caption handed to the transport call.
SentText(rule, m, kind) ==
  IF kind = "send_message" THEN caption_to_send(rule, m)
  ELSE IF kind = "copy_message"
       THEN (IF NonBlank(caption_to_send(rule, m)) THEN caption_to_send(rule, m) ELSE None)
  ELSE None

\* One recorded transport call: dest is the rule's destination (chat_id of
\* the three dispatch calls), msg the message whose chat id and message id
\* the call names; raised tells whether the call raised.
Call(kind, rule, m, raised) ==
  [kind |-> kind, rule |-> rule.id, dest |-> rule.DESTINATION_CHAT_ID, msg |-> m,
   text |-> SentText(rule, m, kind), raised |-> raised]

\* str(e) of the exception a refused transport call raises.
E_Forbidden == <<"F","o","r","b","i","d","d","e","n">>

S_ID == <<"I","D",":"," ">>

\* An error report that names the failed rule by its name only.
error_report_IdOmitted(rule, m, e) ==
  <<"E","r","r","o","r"," ","f","o","r"," ","R","u","l","e"," ">> \o rule.rule_name
    \o <<":"," ","'">> \o e \o <<"'">>

\* The text of the error report (lines 1074-1075), after its leading cross
\* mark: "Forwarding Error for Rule {rule.rule_name} (ID: {rule.id}): '{e}'",
\* a newline, "Source: '{message.chat.id}' | Dest: '{dest_id}'".  The
\* Markdown code quotes of the source are written ' here.
error_report(rule, m, e) ==
  <<"F","o","r","w","a","r","d","i","n","g"," ","E","r","r","o","r"," ",
    "f","o","r"," ","R","u","l","e"," ">> \o rule.rule_name
    \o <<" ","(">> \o S_ID \o IntStr(rule.id) \o <<")",":"," ","'">> \o e \o <<"'","\n">>
    \o <<"S","o","u","r","c","e",":"," ","'">> \o IntStr(m.chat.id)
    \o <<"'"," ","|"," ","D","e","s","t",":"," ","'">> \o rule.DESTINATION_CHAT_ID \o <<"'">>

\* The error report the except block (lines 1068-1077) sends: kind "notify",
\* dest the admin's chat id in digits.
Notify(rule, m, raised) ==
  [kind |-> "notify", rule |-> rule.id, dest |-> IntStr(FORCE_ADMIN_ID), msg |-> m,
   text |-> error_report(rule, m, E_Forbidden), raised |-> raised]

\* The second loop (lines 939-1077) over the matching rules rs.  fails: the
\* rules whose transport call raises; nfails: the rules whose error report
\* to the admin raises too (that send_message is outside any try, so its
\* exception leaves forward_message).  [calls, aborted].
RECURSIVE RunRules(_, _, _, _)
RunRules(rs, m, fails, nfails) ==
  IF rs = <<>> THEN [calls |-> <<>>, aborted |-> FALSE]
  ELSE
    LET rule == Head(rs)
        kind == Plan(rule, m)
        rest == RunRules(Tail(rs), m, fails, nfails)
    IN  IF kind \in {"skip", "none"} THEN rest
        ELSE IF rule.id \notin fails
             THEN [calls |-> <<Call(kind, rule, m, FALSE)>> \o rest.calls,
                   aborted |-> rest.aborted]
        ELSE IF rule.id \in nfails
             THEN [calls |-> <<Call(kind, rule, m, TRUE), Notify(rule, m, TRUE)>>,
                   aborted |-> TRUE]
        ELSE [calls |-> <<Call(kind, rule, m, TRUE), Notify(rule, m, FALSE)>>
                          \o rest.calls,
              aborted |-> rest.aborted]

\* matching_rules, in the order get_all_rules returned the rows.
matching_rules(all_rules, m) == SelectSeq(all_rules, LAMBDA r : IsMatchingRule(r, m))

\* forward_message(update): the transport calls of one invocation.
forward_message(all_rules, m, fails, nfails) ==
  RunRules(matching_rules(all_rules, m), m, fails, nfails)

(* ------------------------------------------------------------------ *)
(* src/app.py: handle_callback                                        *)
(* ------------------------------------------------------------------ *)

\* Callback data is kept as the list data.split('_') yields: 'toggle_active_1'
\* is <<"toggle", "active", "1">>.  data.startswith('menu_') is then "the
\* first part is menu and another part follows".
StartsWithParts(parts, prefix) ==
  /\ Len(parts) > Len(prefix)
  /\ \A i \in DOMAIN prefix : parts[i] = prefix[i]

\* str(rule_id) inside callback data, and int() of it (rule ids below 10).
IdPart(rule_id) == Digits[rule_id + 1]
IsIntPart(t) == IsDigitCh(t)
IntOfPart(t) == (CHOOSE i \in 1..10 : Digits[i] = t) - 1

\* str.upper() of the words the keyboards put in callback data.
UpperWords ==
  <<<<"block", "BLOCK">>, <<"links", "LINKS">>, <<"usernames", "USERNAMES">>,
    <<"media", "MEDIA">>, <<"forwards", "FORWARDS">>, <<"remove", "REMOVE">>,
    <<"buttons", "BUTTONS">>, <<"caption", "CAPTION">>, <<"silent", "SILENT">>,
    <<"forwarding", "FORWARDING">>, <<"service", "SERVICE">>,
    <<"messages", "MESSAGES">>, <<"replies", "REPLIES">>, <<"active", "ACTIVE">>,
    <<"forward", "FORWARD">>, <<"copy", "COPY">>, <<"prefix", "PREFIX">>,
    <<"suffix", "SUFFIX">>, <<"delay", "DELAY">>, <<"web", "WEB">>,
    <<"preview", "PREVIEW">>, <<"is", "IS">>>>

UpperWord(t) ==
  IF \E i \in DOMAIN UpperWords : UpperWords[i][1] = t
  THEN UpperWords[CHOOSE i \in DOMAIN UpperWords : UpperWords[i][1] = t][2]
  ELSE t

\* The boolean columns of ForwardRule by the parts of their names: hasattr
\* and getattr/setattr of handle_callback's toggle.
BoolColumns ==
  <<<<<<"BLOCK", "LINKS">>, "BLOCK_LINKS">>,
    <<<<"BLOCK", "USERNAMES">>, "BLOCK_USERNAMES">>,
    <<<<"BLOCK", "MEDIA">>, "BLOCK_MEDIA">>,
    <<<<"BLOCK", "FORWARDS">>, "BLOCK_FORWARDS">>,
    <<<<"REMOVE", "WEB", "PREVIEW">>, "REMOVE_WEB_PREVIEW">>,
    <<<<"REMOVE", "BUTTONS">>, "REMOVE_BUTTONS">>,
    <<<<"REMOVE", "CAPTION">>, "REMOVE_CAPTION">>,
    <<<<"SILENT", "FORWARDING">>, "SILENT_FORWARDING">>,
    <<<<"BLOCK", "SERVICE", "MESSAGES">>, "BLOCK_SERVICE_MESSAGES">>,
    <<<<"BLOCK", "REPLIES">>, "BLOCK_REPLIES">>,
    <<<<"IS", "ACTIVE">>, "IS_ACTIVE">>>>

HasBoolColumn(attr) == \E i \in DOMAIN BoolColumns : BoolColumns[i][1] = attr
BoolColumn(attr) == BoolColumns[CHOOSE i \in DOMAIN BoolColumns : BoolColumns[i][1] = attr][2]

\* attr of the toggle branch (line 469).
ToggleAttr(parts) ==
  IF Len(parts) > 3
  THEN <<UpperWord(parts[2])>> \o [i \in 1..(Len(parts) - 3) |-> UpperWord(parts[i + 2])]
  ELSE <<UpperWord(parts[2])>>

\* The toggle branch switching the column on instead of inverting it.
ToggledRule_SwitchOn(rule, parts) ==
  IF parts[2] = "active" THEN [rule EXCEPT !.IS_ACTIVE = TRUE]
  ELSE IF HasBoolColumn(ToggleAttr(parts))
       THEN [rule EXCEPT ![BoolColumn(ToggleAttr(parts))] = TRUE]
  ELSE rule

\* The toggle branch (lines 468-479): the rule as saved.
ToggledRule(rule, parts) ==
  IF parts[2] = "active" THEN [rule EXCEPT !.IS_ACTIVE = ~rule.IS_ACTIVE]
  ELSE IF HasBoolColumn(ToggleAttr(parts))
       THEN [rule EXCEPT ![BoolColumn(ToggleAttr(parts))] = ~rule[BoolColumn(ToggleAttr(parts))]]
  ELSE rule

\* context.user_data as the handlers use it (0, "" and None: key absent).
NoUserData ==
  [current_rule_id |-> 0, list_type |-> "", prefix_or_suffix |-> "", find_text |-> None]

\* The result of a handler: the store, the state the handler returns to the
\* ConversationHandler ("KEEP": it returned None or raised, the conversation
\* stays where it was) and user_data.
Handled(store, state, ud) == [rules |-> store, state |-> state, ud |-> ud]

\* handle_callback(update, context) for callback data `parts` pressed in chat
\* chat_id: the if/elif chain of lines 367-634 in its order (without the
\* delete_replacement_confirm_ branch, whose data carries free text).
handle_callback(store, ud, chat_id, parts) ==
  LET last == parts[Len(parts)]
      rid == IntOfPart(last)
      known == IsIntPart(last) /\ HasRule(store, rid)
      rule == get_rule_by_id(store, rid)
  IN
  IF ~is_admin(chat_id) THEN Handled(store, "KEEP", ud)
  ELSE IF parts = <<"main", "menu">> THEN Handled(store, "END", ud)
  ELSE IF StartsWithParts(parts, <<"select", "rule">>) THEN
    (IF IsIntPart(parts[3]) /\ HasRule(store, IntOfPart(parts[3]))
     THEN Handled(store, "END", [ud EXCEPT !.current_rule_id = IntOfPart(parts[3])])
     ELSE Handled(store, IF IsIntPart(parts[3]) THEN "END" ELSE "KEEP", ud))
  ELSE IF parts = <<"create", "new", "rule">> THEN Handled(store, "SET_RULE_NAME", ud)
  ELSE IF StartsWithParts(parts, <<"delete", "rule">>) THEN
    (IF IsIntPart(parts[3])
     THEN Handled(delete_rule(store, IntOfPart(parts[3])), "END", ud)
     ELSE Handled(store, "KEEP", ud))
  ELSE IF parts = <<"add", "button", "menu">> THEN Handled(store, "SET_MESSAGE_FOR_BUTTONS", ud)
  ELSE IF StartsWithParts(parts, <<"menu">>) THEN
    \* Only the media, advanced and mode menus read the rule; every other
    \* menu_type, the unknown ones included, just ends the conversation.
    (IF ~IsIntPart(last) \/ (parts[2] \in {"media", "advanced", "mode"} /\ ~known)
     THEN Handled(store, "KEEP", ud)
     ELSE Handled(store, "END", ud))
  ELSE IF StartsWithParts(parts, <<"toggle">>) \/ StartsWithParts(parts, <<"set">>) THEN
    (IF ~IsIntPart(last) THEN Handled(store, "KEEP", ud)
     ELSE IF ~known THEN Handled(store, "END", ud)
     ELSE IF parts[1] = "toggle"
          THEN Handled(save_rule_to_db(store, ToggledRule(rule, parts)), "END", ud)
     ELSE IF parts[2] \in {"source", "destination"}
          THEN Handled(store,
                       IF parts[2] = "source" THEN "SET_SOURCE_ID" ELSE "SET_DESTINATION_ID",
                       [ud EXCEPT !.current_rule_id = rid])
     ELSE IF parts[2] \in {"prefix", "suffix"}
          THEN Handled(store,
                       IF parts[2] = "prefix" THEN "SET_PREFIX_TEXT" ELSE "SET_SUFFIX_TEXT",
                       [ud EXCEPT !.current_rule_id = rid,
                                  !.prefix_or_suffix = UpperWord(parts[2])])
     ELSE IF parts[2] = "mode"
          THEN Handled(save_rule_to_db(store,
                         [rule EXCEPT !.FORWARDING_MODE = UpperWord(parts[3])]), "END", ud)
     ELSE Handled(store, "END", ud))
  ELSE IF StartsWithParts(parts, <<"add", "replacement", "find">>) THEN
    (IF IsIntPart(last)
     THEN Handled(store, "SET_REPLACEMENT_FIND", [ud EXCEPT !.current_rule_id = rid])
     ELSE Handled(store, "KEEP", ud))
  ELSE IF StartsWithParts(parts, <<"clear", "replacements">>) THEN
    (IF known
     THEN Handled(save_rule_to_db(store, [rule EXCEPT !.TEXT_REPLACEMENTS = <<>>]), "END", ud)
     ELSE Handled(store, "KEEP", ud))
  ELSE IF StartsWithParts(parts, <<"delete", "replacement", "select">>) THEN
    Handled(store, IF known THEN "END" ELSE "KEEP", ud)
  ELSE IF StartsWithParts(parts, <<"add", "blacklist", "word">>)
          \/ StartsWithParts(parts, <<"add", "whitelist", "word">>) THEN
    (IF IsIntPart(last)
     THEN Handled(store,
                  IF parts[2] = "blacklist" THEN "SET_BLACKLIST_WORD" ELSE "SET_WHITELIST_WORD",
                  [ud EXCEPT !.current_rule_id = rid, !.list_type = parts[2]])
     ELSE Handled(store, "KEEP", ud))
  ELSE IF StartsWithParts(parts, <<"clear", "blacklist">>)
          \/ StartsWithParts(parts, <<"clear", "whitelist">>) THEN
    (IF known
     THEN Handled(save_rule_to_db(store,
                    IF parts[2] = "blacklist" THEN [rule EXCEPT !.WORD_BLACKLIST = <<>>]
                    ELSE [rule EXCEPT !.WORD_WHITELIST = <<>>]), "END", ud)
     ELSE Handled(store, "KEEP", ud))
  ELSE Handled(store, "END", ud)

(* ------------------------------------------------------------------ *)
(* src/app.py: the conversation handlers (text typed by the user)     *)
(* ------------------------------------------------------------------ *)

S_100 == <<"-","1","0","0">>
S_clear == <<"c","l","e","a","r">>

\* str.isdigit(): non-empty and all digits.
IsDigitStr(s) == s # <<>> /\ \A i \in DOMAIN s : IsDigitCh(s[i])

\* set_rule_name: a new row with the column defaults; the unique constraint
\* on rule_name refuses a name already stored.  next_id is the id the
\* database hands out.  The row is committed (line 651); commit expires the
\* instance (sessionmaker's expire_on_commit default) and line 652 detaches
\* it, so reading new_rule.id for the reply (line 656) raises
\* DetachedInstanceError: the except branch of line 665 returns
\* SET_RULE_NAME and current_rule_id is never set.
set_rule_name(store, next_id, ud, chat_id, text) ==
  LET rule_name == Strip(text) IN
  IF ~is_admin(chat_id) THEN Handled(store, "END", ud)
  ELSE IF rule_name = <<>> THEN Handled(store, "SET_RULE_NAME", ud)
  ELSE IF \E i \in DOMAIN store : store[i].rule_name = rule_name
       THEN Handled(store, "SET_RULE_NAME", ud)
  ELSE Handled(Append(store, ForwardRule(next_id, rule_name)), "SET_RULE_NAME", ud)

\* The format check of handle_chat_id_input (line 683).
ChatInputOk(chat_input) ==
  \E i \in DOMAIN Split(chat_input, ",") :
    LET item == Split(chat_input, ",")[i]
    IN  StartsWith(item, S_100) \/ StartsWith(item, <<"@">>) \/ IsDigitStr(item)

\* handle_chat_id_input(update, context, config_attr)
handle_chat_id_input(store, ud, chat_id, text, config_attr) ==
  LET rule_id == ud.current_rule_id
      popped == [ud EXCEPT !.current_rule_id = 0]
      chat_input == Strip(text)
  IN
  IF ~is_admin(chat_id) THEN Handled(store, "END", ud)
  ELSE IF rule_id = 0 THEN Handled(store, "KEEP", ud)
  ELSE IF ~HasRule(store, rule_id) THEN Handled(store, "END", popped)
  ELSE IF ~ChatInputOk(chat_input) THEN Handled(store, "END", popped)
  ELSE Handled(save_rule_to_db(store,
                 [get_rule_by_id(store, rule_id) EXCEPT ![config_attr] = chat_input]),
               "END", popped)

\* words_input of set_list_word (line 713)
RECURSIVE words_input_of(_, _)
words_input_of(fields, i) ==
  IF i > Len(fields) THEN <<>>
  ELSE IF Strip(fields[i]) # <<>>
       THEN <<Lower(Strip(fields[i]))>> \o words_input_of(fields, i + 1)
       ELSE words_input_of(fields, i + 1)

\* The loop without its membership test.
RECURSIVE AppendNew_Always(_, _, _)
AppendNew_Always(current_list, words, i) ==
  IF i > Len(words) THEN current_list
  ELSE AppendNew_Always(Append(current_list, words[i]), words, i + 1)

\* The loop of set_list_word (lines 718-721)
RECURSIVE AppendNew(_, _, _)
AppendNew(current_list, words, i) ==
  IF i > Len(words) THEN current_list
  ELSE IF words[i] \in Range(current_list) THEN AppendNew(current_list, words, i + 1)
  ELSE AppendNew(Append(current_list, words[i]), words, i + 1)

\* set_list_word(update, context, list_name, state_to_return)
set_list_word(store, ud, chat_id, text, list_name) ==
  LET rule_id == ud.current_rule_id
      popped == [ud EXCEPT !.current_rule_id = 0, !.list_type = ""]
      rule == get_rule_by_id(store, rule_id)
  IN
  IF ~is_admin(chat_id) THEN Handled(store, "END", ud)
  ELSE IF rule_id = 0 THEN Handled(store, "KEEP", ud)
  ELSE IF ud.list_type = "" THEN Handled(store, "KEEP", [ud EXCEPT !.current_rule_id = 0])
  ELSE IF ~HasRule(store, rule_id) THEN Handled(store, "END", popped)
  ELSE Handled(save_rule_to_db(store,
                 [rule EXCEPT ![list_name] =
                    AppendNew(rule[list_name], words_input_of(Split(text, ","), 1), 1)]),
               "END", popped)

\* set_replacement_find
set_replacement_find(store, ud, chat_id, text) ==
  IF ~is_admin(chat_id) THEN Handled(store, "END", ud)
  ELSE IF ud.current_rule_id = 0 THEN Handled(store, "KEEP", [ud EXCEPT !.find_text = text])
  ELSE Handled(store, "SET_REPLACEMENT_REPLACE", [ud EXCEPT !.find_text = text])

\* A dict whose new keys go first.
DictSet_NewFirst(items, key, value) ==
  IF \E i \in DOMAIN items : items[i][1] = key
  THEN [i \in DOMAIN items |-> IF items[i][1] = key THEN <<key, value>> ELSE items[i]]
  ELSE <<<<key, value>>>> \o items

\* replacements[find_text] = replace_text on a dict kept as its items: an
\* existing key keeps its place, a new key goes last.
DictSet(items, key, value) ==
  IF \E i \in DOMAIN items : items[i][1] = key
  THEN [i \in DOMAIN items |-> IF items[i][1] = key THEN <<key, value>> ELSE items[i]]
  ELSE Append(items, <<key, value>>)

\* set_replacement_replace
set_replacement_replace(store, ud, chat_id, text) ==
  LET rule_id == ud.current_rule_id
      popped == [ud EXCEPT !.current_rule_id = 0, !.find_text = None]
      rule == get_rule_by_id(store, rule_id)
  IN
  IF ~is_admin(chat_id) THEN Handled(store, "END", ud)
  ELSE IF ud.find_text = None THEN Handled(store, "KEEP", ud)
  ELSE IF rule_id = 0 THEN Handled(store, "KEEP", [ud EXCEPT !.find_text = None])
  ELSE IF ~HasRule(store, rule_id) THEN Handled(store, "END", popped)
  ELSE Handled(save_rule_to_db(store,
                 [rule EXCEPT !.TEXT_REPLACEMENTS =
                    DictSet(rule.TEXT_REPLACEMENTS, ud.find_text, text)]),
               "END", popped)

\* set_prefix_suffix_text
set_prefix_suffix_text(store, ud, chat_id, text) ==
  LET rule_id == ud.current_rule_id
      popped == [ud EXCEPT !.current_rule_id = 0, !.prefix_or_suffix = ""]
      rule == get_rule_by_id(store, rule_id)
      value == IF Strip(Lower(text)) = S_clear THEN <<>> ELSE text
  IN
  IF ~is_admin(chat_id) THEN Handled(store, "END", ud)
  ELSE IF rule_id = 0 THEN Handled(store, "KEEP", ud)
  ELSE IF ud.prefix_or_suffix = "" THEN Handled(store, "KEEP", [ud EXCEPT !.current_rule_id = 0])
  ELSE IF ~HasRule(store, rule_id) THEN Handled(store, "END", popped)
  ELSE Handled(save_rule_to_db(store,
                 IF ud.prefix_or_suffix = "PREFIX" THEN [rule EXCEPT !.PREFIX_TEXT = value]
                 ELSE [rule EXCEPT !.SUFFIX_TEXT = value]),
               "END", popped)

(* ------------------------------------------------------------------ *)
(* src/app.py: rule stores the configuration dialog has persisted      *)
(* ------------------------------------------------------------------ *)

N_r1 == <<"r","1">>
N_r2 == <<"r","2">>
S_src_id == <<"-","1","0","0","1","1","1">>
S_dst_id == <<"-","1","0","0","2","2","2">>
S_at_chan == <<"@","c","h","a","n">>
S_id_and_CHAN == <<"-","1","0","0","1","1","1",","," ","@","C","H","A","N">>
W_spam == <<"s","p","a","m">>
W_Sale == <<" ","S","a","l","e">>
W_foo == <<"f","o","o">>
W_bar == <<"b","a","r">>

\* The dialog steps, each the handlers' own result: the button press that
\* opens the conversation, then the text the admin types.
Created(store, next_id, name) ==
  set_rule_name(store, next_id,
                handle_callback(store, NoUserData, FORCE_ADMIN_ID, <<"create", "new", "rule">>).ud,
                FORCE_ADMIN_ID, name).rules

WithChat(store, rule_id, which, text) ==
  handle_chat_id_input(store,
    handle_callback(store, NoUserData, FORCE_ADMIN_ID, <<"set", which, IdPart(rule_id)>>).ud,
    FORCE_ADMIN_ID, text,
    IF which = "source" THEN "SOURCE_CHAT_ID" ELSE "DESTINATION_CHAT_ID").rules

WithWords(store, rule_id, which, text) ==
  set_list_word(store,
    handle_callback(store, NoUserData, FORCE_ADMIN_ID, <<"add", which, "word", IdPart(rule_id)>>).ud,
    FORCE_ADMIN_ID, text,
    IF which = "blacklist" THEN "WORD_BLACKLIST" ELSE "WORD_WHITELIST").rules

WithReplacement(store, rule_id, find, replace) ==
  LET ud1 == handle_callback(store, NoUserData, FORCE_ADMIN_ID,
                             <<"add", "replacement", "find", IdPart(rule_id)>>).ud
      ud2 == set_replacement_find(store, ud1, FORCE_ADMIN_ID, find).ud
  IN  set_replacement_replace(store, ud2, FORCE_ADMIN_ID, replace).rules

Pressed(store, parts) == handle_callback(store, NoUserData, FORCE_ADMIN_ID, parts).rules

\* Rule 1 relays chat -100111 with blacklist [spam] and whitelist [sale];
\* rule 2 relays @chan with whitelist [sale].
StoreLists ==
  LET s1 == WithChat(WithChat(Created(<<>>, 1, N_r1), 1, "source", S_src_id),
                     1, "destination", S_dst_id)
      s2 == WithWords(WithWords(s1, 1, "blacklist", W_spam), 1, "whitelist", W_Sale)
      s3 == WithChat(WithChat(Created(s2, 2, N_r2), 2, "source", S_at_chan),
                     2, "destination", S_dst_id)
  IN  WithWords(s3, 2, "whitelist", W_Sale)

\* Rule 1 forwards chat -100111 verbatim (mode FORWARD, buttons kept);
\* rule 2 names the same chat but has no destination.
StoreForward ==
  LET s1 == WithChat(WithChat(Created(<<>>, 1, N_r1), 1, "source", S_src_id),
                     1, "destination", S_dst_id)
      s2 == Pressed(Pressed(s1, <<"set", "mode", "forward", "1">>),
                    <<"toggle", "remove", "buttons", "1">>)
  IN  WithChat(Created(s2, 2, N_r2), 2, "source", S_id_and_CHAN)

\* Rule 1 forwards chat -100111 verbatim unless its map {foo: bar} changes
\* the text; rule 2 copies the same chat.
StoreReplace ==
  LET s1 == WithChat(WithChat(Created(<<>>, 1, N_r1), 1, "source", S_src_id),
                     1, "destination", S_dst_id)
      s2 == Pressed(Pressed(WithReplacement(s1, 1, W_foo, W_bar),
                            <<"set", "mode", "forward", "1">>),
                    <<"toggle", "remove", "buttons", "1">>)
  IN  WithChat(WithChat(Created(s2, 2, N_r2), 2, "source", S_id_and_CHAN),
               2, "destination", S_dst_id)

SeedStores == {StoreLists, StoreForward, StoreReplace}

(* ------------------------------------------------------------------ *)
(* src/bot.py: the single-route engine (config.json)                   *)
(*                                                                    *)
(* Line 9 imports a name the datetime module does not have; the        *)
(* handlers are modelled as written, for a build in which the import   *)
(* resolves to datetime.                                              *)
(* ------------------------------------------------------------------ *)

\* The default configuration load_config writes (bot_token left out).
\* replace is the dict as its list of <<old, new>> items.
DefaultConfig ==
  [source_chat |-> <<>>, target_chat |-> <<>>, admin_id |-> 0, mode |-> "forward",
   active |-> TRUE, header |-> <<>>, footer |-> <<>>, replace |-> <<>>,
   blacklist |-> <<>>, whitelist |-> <<>>, block_links |-> FALSE,
   block_usernames |-> FALSE, delay_seconds |-> 0, autodelete_seconds |-> 0,
   schedule_time |-> <<>>]

\* admin_id None is 0 here (user ids are positive).
NoAdmin == 0

contains_any(text, words) ==
  IF text = <<>> \/ words = <<>> THEN FALSE
  ELSE \E i \in DOMAIN words : Contains(Lower(text), Lower(Strip(words[i])))

RECURSIVE BotReplaceLoop(_, _, _)
BotReplaceLoop(items, i, out) ==
  IF i > Len(items) THEN out
  ELSE BotReplaceLoop(items, i + 1, StrReplace(out, items[i][1], items[i][2]))

bot_apply_replacements(text, replace_map) ==
  IF text = <<>> \/ replace_map = <<>> THEN text
  ELSE BotReplaceLoop(replace_map, 1, text)

\* URL_RE.search: "http://" or "https://" followed by a non-space character,
\* or "www." followed by one (case-sensitive).
S_http_slashes == <<"h","t","t","p",":","/","/">>
S_https_slashes == <<"h","t","t","p","s",":","/","/">>
S_www_dot == <<"w","w","w",".">>

FollowedByNonSpace(s, p) ==
  \E i \in 1..Len(s) :
     /\ MatchAt(s, p, i)
     /\ i + Len(p) <= Len(s)
     /\ ~IsSpaceCh(s[i + Len(p)])

URL_RE_search(s) ==
  \/ FollowedByNonSpace(s, S_http_slashes)
  \/ FollowedByNonSpace(s, S_https_slashes)
  \/ FollowedByNonSpace(s, S_www_dot)

\* MENTION_RE.search: an @ followed by a word character.
MENTION_RE_search(s) ==
  \E i \in 1..(Len(s) - 1) :
     s[i] = "@" /\ IsWordCh(s[i + 1])

incoming_text(m) == OrEmpty(IF Truthy(m.text) THEN m.text ELSE m.caption)

\* The filters of process_and_send (lines 63-81): TRUE when it returns None
\* before the try.
BotFiltered(c, m) ==
  \/ c.target_chat = <<>>
  \/ c.blacklist # <<>> /\ contains_any(incoming_text(m), c.blacklist)
  \/ c.whitelist # <<>> /\ ~contains_any(incoming_text(m), c.whitelist)
  \/ c.block_links /\ URL_RE_search(incoming_text(m))
  \/ c.block_usernames /\ MENTION_RE_search(incoming_text(m))

\* Lines 87-96: the caption (None when it is empty).
bot_caption(c, m) ==
  LET final_text == bot_apply_replacements(incoming_text(m), c.replace)
      nl == <<"\n">>
      joined == IF final_text # <<>>
                THEN Strip(Strip(Join(<<c.header, final_text, c.footer>>, nl)))
                ELSE Strip(Strip(Join(<<c.header, c.footer>>, nl)))
  IN  IF joined = <<>> THEN None ELSE joined

\* Which transport method process_and_send calls (lines 83-122); send_media
\* is send_photo, send_video, send_document, send_audio or send_voice, and
\* an attachment the function does not name reaches the copy_message
\* fallback.
BotTransport(c, m) ==
  IF c.mode = "forward" /\ c.header = <<>> /\ c.footer = <<>> /\ c.replace = <<>>
  THEN "forward_message"
  ELSE IF m.media \in {"photo", "document"} THEN "send_media"
  ELSE IF m.media = "sticker" THEN "send_sticker"
  ELSE IF Truthy(m.text) THEN "send_message"
  ELSE "copy_message"

\* The text the call carries: the caption, or message.text when the caption
\* is empty; nothing for a forward, a sticker or the copy fallback.
BotSentText(c, m) ==
  LET kind == BotTransport(c, m)
  IN  IF kind = "send_media" THEN bot_caption(c, m)
      ELSE IF kind = "send_message"
           THEN (IF bot_caption(c, m) # None THEN bot_caption(c, m) ELSE m.text)
      ELSE None

\* process_and_send(bot, cfg, message): the calls it issues and whether it
\* returns the sent message; raises tells whether the transport call raises
\* (both try blocks swallow the exception).
process_and_send(c, m, raises) ==
  IF BotFiltered(c, m) THEN [calls |-> <<>>, sent |-> FALSE]
  ELSE [calls |-> <<[kind |-> BotTransport(c, m), rule |-> 0, dest |-> c.target_chat,
                     msg |-> m, text |-> BotSentText(c, m), raised |-> raises]>>,
        sent |-> ~raises]

(* ------------------------------------------------------------------ *)
(* src/bot.py: the admin commands                                      *)
(* ------------------------------------------------------------------ *)

\* int(s): an optional sign and decimal digits; anything else raises.
IsIntStr(s) ==
  \/ IsDigitStr(s)
  \/ Len(s) > 1 /\ s[1] \in {"-", "+"} /\ IsDigitStr(Tail(s))

RECURSIVE NatVal(_)
NatVal(s) ==
  IF s = <<>> THEN 0
  ELSE NatVal(SubSeq(s, 1, Len(s) - 1)) * 10
         + ((CHOOSE i \in 1..10 : Digits[i] = s[Len(s)]) - 1)

IntVal(s) ==
  IF s[1] = "-" THEN 0 - NatVal(Tail(s))
  ELSE IF s[1] = "+" THEN NatVal(Tail(s))
  ELSE NatVal(s)

\* is_admin letting every user pass.
bot_is_admin_Anyone(c, uid) == TRUE

\* is_admin(update) of bot.py for the user the update comes from.
bot_is_admin(c, uid) == c.admin_id = NoAdmin \/ uid = c.admin_id

SP == <<" ">>

cmd_start(c, uid, args) ==
  IF c.admin_id = NoAdmin THEN [c EXCEPT !.admin_id = uid] ELSE c

\* cmd_set_source and cmd_set_target: the first argument, stored as typed.
SetChat(c, uid, args, key) ==
  IF ~bot_is_admin(c, uid) \/ args = <<>> THEN c
  ELSE [c EXCEPT ![key] = args[1],
                 !.admin_id = IF c.admin_id = NoAdmin THEN uid ELSE c.admin_id]

cmd_set_source(c, uid, args) == SetChat(c, uid, args, "source_chat")

cmd_set_target(c, uid, args) == SetChat(c, uid, args, "target_chat")

cmd_mode(c, uid, args) ==
  IF ~bot_is_admin(c, uid) \/ args = <<>> THEN c
  ELSE IF Lower(args[1]) = <<"f","o","r","w","a","r","d">> THEN [c EXCEPT !.mode = "forward"]
  ELSE IF Lower(args[1]) = <<"c","o","p","y">> THEN [c EXCEPT !.mode = "copy"]
  ELSE c

cmd_set_header(c, uid, args) ==
  IF ~bot_is_admin(c, uid) THEN c ELSE [c EXCEPT !.header = Join(args, SP)]

cmd_set_footer(c, uid, args) ==
  IF ~bot_is_admin(c, uid) THEN c ELSE [c EXCEPT !.footer = Join(args, SP)]

\* text.split("|", 1)
SplitOnce(s, sep) ==
  LET i == CHOOSE k \in 1..Len(s) : s[k] = sep /\ \A j \in 1..(k - 1) : s[j] # sep
  IN  <<SubSeq(s, 1, i - 1), SubSeq(s, i + 1, Len(s))>>

cmd_replace(c, uid, args) ==
  LET text == Join(args, SP) IN
  IF ~bot_is_admin(c, uid) \/ "|" \notin Range(text) THEN c
  ELSE [c EXCEPT !.replace = DictSet(c.replace, Strip(SplitOnce(text, "|")[1]),
                                     Strip(SplitOnce(text, "|")[2]))]

cmd_replace_clear(c, uid, args) ==
  IF ~bot_is_admin(c, uid) THEN c ELSE [c EXCEPT !.replace = <<>>]

\* [w.strip() for w in text.split(",") if w.strip()]
RECURSIVE StrippedWords(_, _)
StrippedWords(fields, i) ==
  IF i > Len(fields) THEN <<>>
  ELSE IF Strip(fields[i]) # <<>>
       THEN <<Strip(fields[i])>> \o StrippedWords(fields, i + 1)
       ELSE StrippedWords(fields, i + 1)

SetWords(c, uid, args, key) ==
  IF ~bot_is_admin(c, uid) THEN c
  ELSE IF Join(args, SP) = <<>> THEN [c EXCEPT ![key] = <<>>]
  ELSE [c EXCEPT ![key] = StrippedWords(Split(Join(args, SP), ","), 1)]

cmd_blacklist(c, uid, args) == SetWords(c, uid, args, "blacklist")

cmd_whitelist(c, uid, args) == SetWords(c, uid, args, "whitelist")

OnWords == {<<"o","n">>, <<"t","r","u","e">>, <<"1">>, <<"y","e","s">>}

SetSwitch(c, uid, args, key) ==
  IF ~bot_is_admin(c, uid) \/ args = <<>> THEN c
  ELSE [c EXCEPT ![key] = Lower(args[1]) \in OnWords]

cmd_block_links(c, uid, args) == SetSwitch(c, uid, args, "block_links")

cmd_block_usernames(c, uid, args) == SetSwitch(c, uid, args, "block_usernames")

SetSeconds(c, uid, args, key) ==
  IF ~bot_is_admin(c, uid) \/ args = <<>> THEN c
  ELSE IF ~IsIntStr(args[1]) THEN c
  ELSE [c EXCEPT ![key] = IntVal(args[1])]

cmd_delay(c, uid, args) == SetSeconds(c, uid, args, "delay_seconds")

cmd_autodelete(c, uid, args) == SetSeconds(c, uid, args, "autodelete_seconds")

OffWords == {<<"o","f","f">>, <<"n","o","n","e">>, <<"d","i","s","a","b","l","e">>}

\* datetime.strptime(arg, "%H:%M") accepts one or two digits on each side.
IsHourMinute(s) ==
  /\ Len(Split(s, ":")) = 2
  /\ LET h == Split(s, ":")[1]
         mi == Split(s, ":")[2]
     IN  /\ IsDigitStr(h) /\ Len(h) <= 2 /\ NatVal(h) <= 23
         /\ IsDigitStr(mi) /\ Len(mi) <= 2 /\ NatVal(mi) <= 59

cmd_setschedule(c, uid, args) ==
  IF ~bot_is_admin(c, uid) \/ args = <<>> THEN c
  ELSE IF Lower(args[1]) \in OffWords THEN [c EXCEPT !.schedule_time = <<>>]
  ELSE IF ~IsHourMinute(args[1]) THEN c
  ELSE [c EXCEPT !.schedule_time = args[1]]

cmd_pause(c, uid, args) ==
  IF ~bot_is_admin(c, uid) THEN c ELSE [c EXCEPT !.active = FALSE]

cmd_resume(c, uid, args) ==
  IF ~bot_is_admin(c, uid) THEN c ELSE [c EXCEPT !.active = TRUE]

\* cmd_help, cmd_status and cmd_config only reply.
cmd_readonly(c, uid, args) == c

\* The dispatcher's CommandHandler table.
RunCommand(c, uid, name, args) ==
  CASE name = "start" -> cmd_start(c, uid, args)
    [] name = "set_source" -> cmd_set_source(c, uid, args)
    [] name = "set_target" -> cmd_set_target(c, uid, args)
    [] name = "mode" -> cmd_mode(c, uid, args)
    [] name = "set_header" -> cmd_set_header(c, uid, args)
    [] name = "set_footer" -> cmd_set_footer(c, uid, args)
    [] name = "replace" -> cmd_replace(c, uid, args)
    [] name = "replace_clear" -> cmd_replace_clear(c, uid, args)
    [] name = "blacklist" -> cmd_blacklist(c, uid, args)
    [] name = "whitelist" -> cmd_whitelist(c, uid, args)
    [] name = "block_links" -> cmd_block_links(c, uid, args)
    [] name = "block_usernames" -> cmd_block_usernames(c, uid, args)
    [] name = "delay" -> cmd_delay(c, uid, args)
    [] name = "autodelete" -> cmd_autodelete(c, uid, args)
    [] name = "setschedule" -> cmd_setschedule(c, uid, args)
    [] name = "pause" -> cmd_pause(c, uid, args)
    [] name = "resume" -> cmd_resume(c, uid, args)
    [] OTHER -> cmd_readonly(c, uid, args)

(* ------------------------------------------------------------------ *)
(* src/bot.py: routing, delayed sends and the schedule                 *)
(* ------------------------------------------------------------------ *)

\* The source test of message_router (lines 137-146).
SourceMatches(c, chat) ==
  IF StartsWith(c.source_chat, <<"@">>)
  THEN Lower(OrEmpty(chat.username)) = Lower(Tail(c.source_chat))
  ELSE IF IsIntStr(c.source_chat) THEN IntVal(c.source_chat) = chat.id
  ELSE Lower(OrEmpty(chat.username)) = Lower(c.source_chat)

\* Where message_router sends a message: "drop", "pending" (the schedule
\* queue), "job" (run_once after the delay) or "send" (process_and_send now).
Route(c, m) ==
  IF ~c.active \/ c.source_chat = <<>> \/ ~SourceMatches(c, m.chat) THEN "drop"
  ELSE IF c.schedule_time # <<>> THEN "pending"
  ELSE IF c.delay_seconds > 0 THEN "job"
  ELSE "send"

\* A job of the job queue: the delayed scheduled_send of a message, or the
\* delete_message of a message the bot sent.
SendJob(m) == [kind |-> "scheduled_send", msg |-> m, chat |-> <<>>]
DeleteJob(m, chat) == [kind |-> "delete_message", msg |-> m, chat |-> chat]

\* The auto-delete job queued after a successful send.
AutoDelete(c, m, res) ==
  IF res.sent /\ c.autodelete_seconds > 0 THEN {DeleteJob(m, c.target_chat)} ELSE {}

\* schedule_checker's loop over the pending messages; raising holds the
\* positions whose transport call raises.
RECURSIVE FlushPending(_, _, _, _)
FlushPending(c, msgs, i, raising) ==
  IF i > Len(msgs) THEN [calls |-> <<>>, jobs |-> {}]
  ELSE LET res == process_and_send(c, msgs[i], i \in raising)
           rest == FlushPending(c, msgs, i + 1, raising)
       IN  [calls |-> res.calls \o rest.calls,
            jobs |-> AutoDelete(c, msgs[i], res) \cup rest.jobs]

(* ------------------------------------------------------------------ *)
(* src/bot.py: configurations the admin commands have saved            *)
(* ------------------------------------------------------------------ *)

S_Chan == <<"C","h","a","n">>
S_H == <<"H">>
S_foo_bar == <<"f","o","o","|","b","a","r">>
S_one == <<"1">>
S_0900 == <<"0","9",":","0","0">>

Routed(source, target) ==
  cmd_set_target(cmd_set_source(cmd_start(DefaultConfig, FORCE_ADMIN_ID, <<>>),
                                FORCE_ADMIN_ID, <<source>>),
                 FORCE_ADMIN_ID, <<target>>)

\* @chan forwarded with blacklist [spam] and whitelist [Sale].
ConfigLists ==
  cmd_whitelist(cmd_blacklist(Routed(S_at_chan, S_dst_id), FORCE_ADMIN_ID, <<W_spam>>),
                FORCE_ADMIN_ID, <<W_Sale>>)

\* Chat -100111 copied under the header H, the target not set yet.
ConfigHeader ==
  cmd_set_header(cmd_mode(cmd_set_source(cmd_start(DefaultConfig, FORCE_ADMIN_ID, <<>>),
                                         FORCE_ADMIN_ID, <<S_src_id>>),
                          FORCE_ADMIN_ID, <<<<"c","o","p","y">>>>),
                 FORCE_ADMIN_ID, <<S_H>>)

\* The handle Chan written without @, foo replaced by bar.
ConfigReplace == cmd_replace(Routed(S_Chan, S_dst_id), FORCE_ADMIN_ID, <<S_foo_bar>>)

\* Chat -100111 forwarded after a delay of one second.
ConfigDelay == cmd_delay(Routed(S_src_id, S_dst_id), FORCE_ADMIN_ID, <<S_one>>)

SeedConfigs == {ConfigLists, ConfigHeader, ConfigReplace}

(* ------------------------------------------------------------------ *)
(* The two relays as one state machine                                 *)
(* ------------------------------------------------------------------ *)

\* How many admin operations (button presses, commands) a run makes.
MaxAdminOps == 1
\* How many messages wait for the schedule, and how many jobs are queued.
MaxPending == 1
MaxJobs == 1

\* The users who press buttons and send commands: the admin and a stranger.
Users == {FORCE_ADMIN_ID, 7}

\* src/src/app.py: the `state` dict as the module creates it.  forwarded_cache
\* is the dict as a function from keys <<chat id, message id>> to timestamps.
initial_state ==
  [channels |-> [source |-> None, target |-> None],
   replacements |-> <<>>, blocked |-> <<>>, header |-> <<>>, footer |-> <<>>,
   enabled |-> TRUE, blacklist |-> <<>>, whitelist |-> <<>>,
   forwarded_cache |-> <<>>, logging |-> FALSE, dup_check |-> TRUE]

VARIABLES
  prog,     \* which program runs: "app" (src/app.py), "bot" (src/bot.py), "text", ...
  rules,    \* app: the rows of forward_rules
  cfg,      \* bot: config.json
  inbox,    \* the update the dispatcher has received and not yet handled
  pending,  \* bot: PENDING_MESSAGES
  jobs,     \* bot: the job queue's run_once jobs
  calls,    \* the Bot API calls of the update (or job) handled last
  aborted,  \* app: the last forward_message was left by an exception
  last,     \* the message handled last
  prior,    \* the rules that had already delivered the message in hand
  nops,     \* admin operations so far
  lab,      \* the inputs and results of the functions run on their own
  removed,  \* app: the ids of the rules a delete_rule_ callback has deleted
  actor,    \* app: the chat whose dialog update was handled last (0: none)
  ud,       \* app: context.user_data of each user
  conv,     \* app: the ConversationHandler's state for each user
  mem,      \* src/src/app.py: the state dict
  clock,    \* src/src/app.py: time.time(), in seconds
  seen      \* src/src/app.py: when each key was last handled and last forwarded

admin_vars == <<removed, actor, ud, conv>>
mem_vars == <<mem, clock, seen>>

vars ==
  <<prog, rules, cfg, inbox, pending, jobs, calls, aborted, last, prior, nops, lab,
    removed, actor, ud, conv, mem, clock, seen>>

\* No admin-side update has been handled; no conversation is open.
AdminIdle ==
  /\ removed = {}
  /\ actor = 0
  /\ ud = [u \in Users |-> NoUserData]
  /\ conv = [u \in Users |-> "END"]

\* The in-memory relay has just been started.
MemIdle ==
  /\ mem = initial_state
  /\ clock = 0
  /\ seen = [handled |-> <<>>, sent |-> <<>>, before |-> [handled |-> {}, sent |-> {}]]

NoLab == [fn |-> "none"]

Init ==
  /\ prog \in {"app", "bot"}
  /\ rules \in (IF prog = "app" THEN SeedStores ELSE {<<>>})
  /\ cfg \in (IF prog = "bot" THEN SeedConfigs ELSE {DefaultConfig})
  /\ inbox = NoMsg
  /\ pending = <<>>
  /\ jobs = {}
  /\ calls = <<>>
  /\ aborted = FALSE
  /\ last = NoMsg
  /\ prior = {}
  /\ nops = 0
  /\ AdminIdle
  /\ MemIdle
  /\ lab = NoLab

\* The calls that dispatch a message to a destination (send_media: bot.py's
\* send_photo ... send_voice).
DispatchKinds ==
  {"send_message", "copy_message", "forward_message", "send_media", "send_sticker"}

\* get_all_rules(): the rows in an order the query does not fix.
get_all_rules(store) ==
  {[i \in DOMAIN store |-> store[f[i]]] :
     f \in {g \in [DOMAIN store -> DOMAIN store] : \A i, j \in DOMAIN store : g[i] = g[j] => i = j}}

\* The rules that issue a transport call for m.
Dispatching(store, m) ==
  {store[i].id : i \in {j \in DOMAIN store :
                          /\ IsMatchingRule(store[j], m)
                          /\ Plan(store[j], m) \in DispatchKinds}}

\* The rules a call log delivered for.
Delivered(log) ==
  {log[i].rule : i \in {j \in DOMAIN log : log[j].kind \in DispatchKinds /\ ~log[j].raised}}

SameMessage(m1, m2) == m1.chat.id = m2.chat.id /\ m1.message_id = m2.message_id

\* The updates each program is fed.
BotMessages ==
  {Msg(ChanChat, 1, t, None, "none", FALSE, FALSE, FALSE) :
     t \in {T_big_SALE_today, T_Spam_sale, T_foo_foo}}
    \cup {Msg(ChanChat, 1, None, T_big_SALE_today, "photo", FALSE, FALSE, FALSE),
          Msg(ChanChat, 1, None, None, "other", FALSE, FALSE, FALSE),
          Msg(ChanChat, 2, T_big_SALE_today, None, "none", FALSE, FALSE, FALSE),
          Msg(PlainChat, 1, T_big_SALE_today, None, "none", FALSE, FALSE, FALSE)}

Inbound == IF prog = "bot" THEN BotMessages ELSE Messages

\* The webhook receives a message or channel post: a message id its chat has
\* not used before.
ChannelPost ==
  /\ inbox = NoMsg
  /\ \E m \in Inbound :
       /\ ~SameMessage(m, last)
       /\ inbox' = m
  /\ prior' = {}
  /\ calls' = <<>>
  /\ aborted' = FALSE
  /\ last' = NoMsg
  /\ UNCHANGED <<prog, rules, cfg, pending, jobs, nops, lab>>
  /\ UNCHANGED <<admin_vars, mem_vars>>

\* The webhook receives the edited_message / edited_channel_post of the
\* message handled last: same chat and message id, any content.
EditedChannelPost ==
  /\ inbox = NoMsg
  /\ last # NoMsg
  /\ \E m \in Inbound :
       /\ SameMessage(m, last)
       /\ inbox' = m
  /\ prior' = prior \cup Delivered(calls)
  /\ calls' = <<>>
  /\ aborted' = FALSE
  /\ last' = NoMsg
  /\ UNCHANGED <<prog, rules, cfg, pending, jobs, nops, lab>>
  /\ UNCHANGED <<admin_vars, mem_vars>>

\* app.py handles the update: one run of forward_message.
AppUpdate ==
  /\ prog = "app"
  /\ inbox # NoMsg
  /\ \E all_rules \in get_all_rules(rules) :
     \E fails \in SUBSET Dispatching(rules, inbox) :
     \E nfails \in SUBSET fails :
       LET res == forward_message(all_rules, inbox, fails, nfails)
       IN  /\ calls' = res.calls
           /\ aborted' = res.aborted
  /\ last' = inbox
  /\ inbox' = NoMsg
  /\ UNCHANGED <<prog, rules, cfg, pending, jobs, prior, nops, lab>>
  /\ UNCHANGED <<admin_vars, mem_vars>>

\* Buttons of the rule keyboards that act at once, and the data of the
\* REMOVE_WEB_PREVIEW toggle, which no keyboard shows.
OneShotData(store) ==
  UNION {{<<"toggle", "active", IdPart(store[i].id)>>,
          <<"toggle", "remove", "buttons", IdPart(store[i].id)>>,
          <<"toggle", "remove", "caption", IdPart(store[i].id)>>,
          <<"toggle", "remove", "web", "preview", IdPart(store[i].id)>>,
          <<"toggle", "block", "service", "messages", IdPart(store[i].id)>>,
          <<"set", "mode", "forward", IdPart(store[i].id)>>,
          <<"set", "mode", "copy", IdPart(store[i].id)>>,
          <<"delete", "rule", IdPart(store[i].id)>>} : i \in DOMAIN store}

\* The rule the press deletes: the handler found the row, deleted it and
\* committed (lines 404-408).
DeletedBy(store, chat_id, parts) ==
  IF /\ is_admin(chat_id)
     /\ StartsWithParts(parts, <<"delete", "rule">>)
     /\ IsIntPart(parts[3])
     /\ HasRule(store, IntOfPart(parts[3]))
  THEN {IntOfPart(parts[3])}
  ELSE {}

\* A button press handled by handle_callback outside a conversation.
AdminCallback ==
  /\ prog = "app"
  /\ inbox = NoMsg
  /\ nops < MaxAdminOps
  /\ \E chat_id \in Users, parts \in OneShotData(rules) :
       LET res == handle_callback(rules, ud[chat_id], chat_id, parts)
       IN  /\ rules' = res.rules
           /\ ud' = [ud EXCEPT ![chat_id] = res.ud]
           /\ conv' = [conv EXCEPT ![chat_id] =
                         IF res.state = "KEEP" THEN conv[chat_id] ELSE res.state]
           /\ removed' = removed \cup DeletedBy(rules, chat_id, parts)
  /\ nops' = nops + 1
  /\ calls' = <<>>
  /\ aborted' = FALSE
  /\ last' = NoMsg
  /\ prior' = {}
  /\ UNCHANGED <<prog, cfg, inbox, pending, jobs, lab, actor, mem_vars>>

\* The command lines the users send.
BotCommands ==
  {<<"start", <<>>>>, <<"status", <<>>>>,
   <<"set_source", <<S_at_chan>>>>, <<"set_source", <<S_src_id>>>>,
   <<"set_target", <<S_dst_id>>>>, <<"set_target", <<>>>>,
   <<"mode", <<<<"F","o","r","w","a","r","d">>>>>>, <<"mode", <<<<"c","o","p","y">>>>>>,
   <<"set_header", <<S_H>>>>, <<"set_header", <<>>>>,
   <<"set_footer", <<S_H>>>>, <<"set_footer", <<>>>>,
   <<"replace", <<S_foo_bar>>>>, <<"replace_clear", <<>>>>,
   <<"blacklist", <<W_spam>>>>, <<"blacklist", <<>>>>,
   <<"whitelist", <<W_Sale>>>>, <<"whitelist", <<>>>>,
   <<"block_links", <<<<"o","n">>>>>>, <<"block_usernames", <<<<"o","n">>>>>>,
   <<"delay", <<S_one>>>>, <<"autodelete", <<S_one>>>>,
   <<"setschedule", <<S_0900>>>>, <<"setschedule", <<<<"o","f","f">>>>>>,
   <<"pause", <<>>>>, <<"resume", <<>>>>}

\* A command handled by its CommandHandler.
BotCommand ==
  /\ prog = "bot"
  /\ inbox = NoMsg
  /\ nops < MaxAdminOps
  /\ \E uid \in Users, cmd \in BotCommands :
       cfg' = RunCommand(cfg, uid, cmd[1], cmd[2])
  /\ nops' = nops + 1
  /\ calls' = <<>>
  /\ last' = NoMsg
  /\ prior' = {}
  /\ UNCHANGED <<prog, rules, inbox, pending, jobs, aborted, lab>>
  /\ UNCHANGED <<admin_vars, mem_vars>>

\* bot.py handles the update: message_router.
BotUpdate ==
  /\ prog = "bot"
  /\ inbox # NoMsg
  /\ \E raises \in BOOLEAN :
       LET route == Route(cfg, inbox)
           res == process_and_send(cfg, inbox, raises)
       IN  /\ route = "pending" => Len(pending) < MaxPending
           /\ pending' = IF route = "pending" THEN Append(pending, inbox) ELSE pending
           /\ jobs' = IF route = "job" THEN jobs \cup {SendJob(inbox)}
                      ELSE IF route = "send" THEN jobs \cup AutoDelete(cfg, inbox, res)
                      ELSE jobs
           /\ Cardinality(jobs') <= MaxJobs
           /\ calls' = IF route = "send" THEN res.calls ELSE <<>>
  /\ last' = inbox
  /\ inbox' = NoMsg
  /\ UNCHANGED <<prog, rules, cfg, aborted, prior, nops, lab>>
  /\ UNCHANGED <<admin_vars, mem_vars>>

\* A job of the job queue runs: scheduled_send, or the auto-delete lambda.
BotJob ==
  /\ prog = "bot"
  /\ inbox = NoMsg
  /\ \E j \in jobs, raises \in BOOLEAN :
       LET res == process_and_send(cfg, j.msg, raises)
       IN  /\ jobs' = IF j.kind = "scheduled_send"
                      THEN (jobs \ {j}) \cup AutoDelete(cfg, j.msg, res)
                      ELSE jobs \ {j}
           /\ calls' = IF j.kind = "scheduled_send" THEN res.calls
                       ELSE <<[kind |-> "delete_message", rule |-> 0, dest |-> j.chat,
                               msg |-> j.msg, text |-> None, raised |-> raises]>>
           /\ last' = IF j.kind = "scheduled_send" THEN j.msg ELSE NoMsg
  /\ prior' = {}
  /\ UNCHANGED <<prog, rules, cfg, inbox, pending, aborted, nops, lab>>
  /\ UNCHANGED <<admin_vars, mem_vars>>

\* schedule_checker at the minute that equals schedule_time.
BotSchedule ==
  /\ prog = "bot"
  /\ inbox = NoMsg
  /\ cfg.schedule_time # <<>>
  /\ \E raising \in SUBSET (DOMAIN pending) :
       LET res == FlushPending(cfg, pending, 1, raising)
       IN  /\ jobs' = jobs \cup res.jobs
           /\ Cardinality(jobs') <= MaxJobs
           /\ calls' = res.calls
  /\ pending' = <<>>
  /\ last' = IF pending = <<>> THEN NoMsg ELSE pending[Len(pending)]
  /\ prior' = {}
  /\ UNCHANGED <<prog, rules, cfg, inbox, aborted, nops, lab>>
  /\ UNCHANGED <<admin_vars, mem_vars>>

Next ==
  \/ ChannelPost
  \/ EditedChannelPost
  \/ AppUpdate
  \/ AdminCallback
  \/ BotUpdate
  \/ BotCommand
  \/ BotJob
  \/ BotSchedule

Spec == Init /\ [][Next]_vars

\* src/bot.py started with a delay configured.
InitDelay ==
  /\ prog = "bot"
  /\ rules = <<>>
  /\ cfg = ConfigDelay
  /\ inbox = NoMsg
  /\ pending = <<>>
  /\ jobs = {}
  /\ calls = <<>>
  /\ aborted = FALSE
  /\ last = NoMsg
  /\ prior = {}
  /\ nops = 0
  /\ AdminIdle
  /\ MemIdle
  /\ lab = NoLab

NextDelay ==
  \/ ChannelPost
  \/ EditedChannelPost
  \/ BotUpdate
  \/ BotCommand
  \/ BotJob
  \/ BotSchedule

SpecDelay == InitDelay /\ [][NextDelay]_vars

(* ------------------------------------------------------------------ *)
(* src/src/app.py: the text functions of the in-memory engine          *)
(* ------------------------------------------------------------------ *)

\* apply_replacements(text): state["replacements"] as <<old, new>> pairs.
RECURSIVE mem_apply_replacements(_, _)
mem_apply_replacements(text, replacements) ==
  IF replacements = <<>> THEN text
  ELSE mem_apply_replacements(StrReplace(text, Head(replacements)[1], Head(replacements)[2]),
                              Tail(replacements))

\* composed (line 464): the non-empty parts joined by newlines, " " if none.
composed(header, final_text, footer) ==
  LET parts == SelectSeq(<<header, final_text, footer>>, LAMBDA part : part # <<>>)
  IN  IF Join(parts, <<"\n">>) = <<>> THEN <<" ">> ELSE Join(parts, <<"\n">>)

(* ------------------------------------------------------------------ *)
(* The text functions on bounded inputs                                *)
(* ------------------------------------------------------------------ *)

MaxTextLen == 3
MaxFindLen == 2

Alphabet == {"a", "b"}

StrsUpTo(n) == UNION {[1..k -> Alphabet] : k \in 0..n}

TextInputs == StrsUpTo(MaxTextLen) \cup {T_foo_foo}
FindInputs == StrsUpTo(MaxFindLen) \cup {W_foo}
ReplaceInputs == StrsUpTo(MaxFindLen) \cup {W_bar}
HeaderInputs == {<<>>, <<"a">>}
FooterInputs == {<<>>, <<"b">>}

InitText ==
  /\ prog = "text"
  /\ rules = <<>>
  /\ cfg = DefaultConfig
  /\ inbox = NoMsg
  /\ pending = <<>>
  /\ jobs = {}
  /\ calls = <<>>
  /\ aborted = FALSE
  /\ last = NoMsg
  /\ prior = {}
  /\ nops = 0
  /\ AdminIdle
  /\ MemIdle
  /\ lab \in [fn : {"input"}, text : TextInputs, find : FindInputs, replace : ReplaceInputs,
              header : HeaderInputs, footer : FooterInputs, out : {None}, out2 : {None}]

relay_vars ==
  <<prog, rules, cfg, inbox, pending, jobs, calls, aborted, last, prior, nops,
    admin_vars, mem_vars>>

\* The inputs are still to be used.
Ready == prog = "text" /\ lab.fn = "input"

Ran(fn, out, out2) == [lab EXCEPT !.fn = fn, !.out = out, !.out2 = out2]

TextMsg(text) == Msg(ChanChat, 1, text, None, "none", FALSE, FALSE, FALSE)

\* bot.py apply_replacements with the map {find: replace}.
BotReplace ==
  /\ Ready
  /\ lab' = Ran("bot_replace",
                bot_apply_replacements(lab.text, <<<<lab.find, lab.replace>>>>), None)
  /\ UNCHANGED relay_vars

\* app.py's replacement loop for a rule whose map is {find: replace}.
AppReplace ==
  /\ Ready
  /\ lab' = Ran("app_replace",
                TextProcessing([ForwardRule(1, N_r1) EXCEPT
                                  !.TEXT_REPLACEMENTS = <<<<lab.find, lab.replace>>>>],
                               TextMsg(lab.text)).text,
                None)
  /\ UNCHANGED relay_vars

\* src/src/app.py apply_replacements with the one pair (find, replace).
MemReplace ==
  /\ Ready
  /\ lab' = Ran("mem_replace",
                mem_apply_replacements(lab.text, <<<<lab.find, lab.replace>>>>), None)
  /\ UNCHANGED relay_vars

\* bot.py's caption for the body, and for its own output as the body.
BotCompose ==
  /\ Ready
  /\ LET c == [DefaultConfig EXCEPT !.header = lab.header, !.footer = lab.footer]
         once == bot_caption(c, TextMsg(lab.text))
     IN  lab' = Ran("bot_compose", once, bot_caption(c, TextMsg(once)))
  /\ UNCHANGED relay_vars

\* src/src/app.py's composed for the body, and for its own output as the body.
MemCompose ==
  /\ Ready
  /\ LET once == composed(lab.header, lab.text, lab.footer)
     IN  lab' = Ran("mem_compose", once, composed(lab.header, once, lab.footer))
  /\ UNCHANGED relay_vars

NextText ==
  \/ BotReplace
  \/ AppReplace
  \/ MemReplace
  \/ BotCompose
  \/ MemCompose

SpecText == InitText /\ [][NextText]_vars

(* ------------------------------------------------------------------ *)
(* src/bot.py: the schedule against the clock                          *)
(* ------------------------------------------------------------------ *)

\* datetime.now().strftime("%H:%M"): both fields zero-padded to two digits.
strftime_HM(h, m) ==
  LET two(n) == IF n < 10 THEN <<"0">> \o NatStr(n) ELSE NatStr(n)
  IN  two(h) \o <<":">> \o two(m)

\* schedule_checker's test (lines 172-176): the queue is flushed in the
\* minute whose "%H:%M" equals schedule_time, a string comparison.
schedule_due(sched, now) == sched # <<>> /\ now = sched

\* The minutes of a day the clock is read at.
ClockHours == 0..23
ClockMinutes == {0, 30}

S_2200 == <<"2","2",":","0","0">>
S_0600 == <<"0","6",":","0","0">>
S_900 == <<"9",":","0","0">>

\* schedule_time as cmd_setschedule stores it: "" (off) or the argument as typed.
ScheduleInputs ==
  {cmd_setschedule(DefaultConfig, FORCE_ADMIN_ID, <<a>>).schedule_time :
     a \in {<<"o","f","f">>, S_2200, S_0600, S_900}}

InitClock ==
  /\ prog = "clock"
  /\ rules = <<>>
  /\ cfg = DefaultConfig
  /\ inbox = NoMsg
  /\ pending = <<>>
  /\ jobs = {}
  /\ calls = <<>>
  /\ aborted = FALSE
  /\ last = NoMsg
  /\ prior = {}
  /\ nops = 0
  /\ AdminIdle
  /\ MemIdle
  /\ lab \in [fn : {"input"}, hour : ClockHours, minute : ClockMinutes,
              schedule_time : ScheduleInputs, out : {FALSE}]

ClockReady == prog = "clock" /\ lab.fn = "input"

\* message_router at that time for a message of the source chat: whether the
\* message is held back in PENDING_MESSAGES instead of being sent.
RouterAtTime ==
  /\ ClockReady
  /\ LET c == [Routed(S_src_id, S_dst_id) EXCEPT !.schedule_time = lab.schedule_time]
     IN  lab' = [lab EXCEPT !.fn = "message_router",
                            !.out = (Route(c, TextMsg(T_big_SALE_today)) = "pending")]
  /\ UNCHANGED relay_vars

\* schedule_checker at that time: whether it flushes PENDING_MESSAGES.
CheckerAtTime ==
  /\ ClockReady
  /\ lab' = [lab EXCEPT !.fn = "schedule_checker",
                        !.out = schedule_due(lab.schedule_time,
                                             strftime_HM(lab.hour, lab.minute))]
  /\ UNCHANGED relay_vars

NextClock ==
  \/ RouterAtTime
  \/ CheckerAtTime

SpecClock == InitClock /\ [][NextClock]_vars

(* ------------------------------------------------------------------ *)
(* Source matching on its own: every source spec against every chat    *)
(* ------------------------------------------------------------------ *)

\* What an admin may have typed as one entry of a source: ids, the id
\* without its sign, a longer id, handles in several spellings, a bare name.
SourceEntries ==
  {S_src_id, <<"-","1","0","0","3","3","3">>, <<"1","0","0","1","1","1">>,
   <<"-","1","0","0","1","1","1","9">>, S_at_chan, <<"@","C","H","A","N">>,
   <<"@","@","c","h","a","n">>, <<"@">>, <<"c","h","a","n">>, <<"@","c","h","a">>}

\* The stored source: unset, empty, one entry (bare or between blanks), or
\* two entries separated by a comma and a blank.
SourceSpecs ==
  {None, <<>>}
    \cup SourceEntries
    \cup {<<" ">> \o e \o <<" ">> : e \in SourceEntries}
    \cup {e1 \o <<",", " ">> \o e2 : e1 \in SourceEntries, e2 \in SourceEntries}

\* The chats a post comes from: with and without a handle, in two spellings.
MatchChats ==
  {ChanChat, PlainChat,
   [id |-> -100111, username |-> None],
   [id |-> -100444, username |-> <<"c","h","a","n">>]}

InitMatch ==
  /\ prog = "match"
  /\ rules = <<>>
  /\ cfg = DefaultConfig
  /\ inbox = NoMsg
  /\ pending = <<>>
  /\ jobs = {}
  /\ calls = <<>>
  /\ aborted = FALSE
  /\ last = NoMsg
  /\ prior = {}
  /\ nops = 0
  /\ AdminIdle
  /\ MemIdle
  /\ lab \in [fn : {"input"}, source : SourceSpecs, chat : MatchChats, out : {FALSE}]

MatchReady == prog = "match" /\ lab.fn = "input"

\* The source test of forward_message (src/app.py lines 921-932).
AppMatch ==
  /\ MatchReady
  /\ lab' = [lab EXCEPT
               !.fn = "forward_message",
               !.out = is_match([ForwardRule(1, N_r1) EXCEPT !.SOURCE_CHAT_ID = lab.source],
                                Msg(lab.chat, 1, T_big_SALE_today, None, "none",
                                    FALSE, FALSE, FALSE))]
  /\ UNCHANGED relay_vars

\* The source test of message_router (src/bot.py lines 131-147).
RouterMatch ==
  /\ MatchReady
  /\ lab.source # None
  /\ lab' = [lab EXCEPT
               !.fn = "message_router",
               !.out = (lab.source # <<>>
                        /\ SourceMatches([DefaultConfig EXCEPT !.source_chat = lab.source],
                                         lab.chat))]
  /\ UNCHANGED relay_vars

NextMatch ==
  \/ AppMatch
  \/ RouterMatch

SpecMatch == InitMatch /\ [][NextMatch]_vars

(* ------------------------------------------------------------------ *)
(* src/src/app.py: the in-memory relay and its duplicate cache         *)
(* ------------------------------------------------------------------ *)

\* ttl_seconds, the default of forwarded_cache_exists (line 90).
cache_ttl == 3600

\* unique_key (line 445), f"{msg.chat.id}:{msg.message_id}": the two numbers,
\* which the string determines and is determined by.
unique_key(m) == <<m.chat.id, m.message_id>>

\* A cache that loses every entry as soon as it is one second old.
add_forwarded_cache_Stale(cache, key, now) ==
  [k \in DOMAIN cache \cup {key} |-> IF k = key THEN now - cache_ttl - 1 ELSE cache[k]]

\* add_forwarded_cache (lines 87-88) at time now.
add_forwarded_cache(cache, key, now) ==
  [k \in DOMAIN cache \cup {key} |-> IF k = key THEN now ELSE cache[k]]

\* forwarded_cache_exists (lines 90-96) at time now: the entries older than
\* the ttl are deleted, then the key is looked up.  [cache, found].
forwarded_cache_exists(cache, key, now) ==
  LET kept == {k \in DOMAIN cache : ~(now - cache[k] > cache_ttl)}
  IN  [cache |-> [k \in kept |-> cache[k]], found |-> key \in kept]

\* is_blocked_message (lines 81-85).
is_blocked_message(text, blocked) ==
  \E i \in DOMAIN blocked : Truthy(blocked[i]) /\ Contains(text, blocked[i])

\* src_match (lines 424-439) for a message without forward_from_chat.
src_match(st, m) ==
  \/ IntStr(m.chat.id) = st.channels.source
  \/ <<"@">> \o OrEmpty(m.chat.username) = st.channels.source

\* The update gets as far as the duplicate check (lines 412-445).
ReachesDupCheck(st, m) ==
  /\ st.enabled
  /\ Truthy(st.channels.source)
  /\ Truthy(st.channels.target)
  /\ src_match(st, m)

MemCall(kind, dest, m, text, raised) ==
  [kind |-> kind, rule |-> 0, dest |-> dest, msg |-> m, text |-> text, raised |-> raised]

\* handle_incoming recording the key before the transport call returns.
handle_incoming_CacheFirst(st, m, now, raises) ==
  LET text == IF Truthy(m.text) THEN m.text ELSE OrEmpty(m.caption)
      key == unique_key(m)
      looked == forwarded_cache_exists(st.forwarded_cache, key, now)
      checked == IF st.dup_check THEN [st EXCEPT !.forwarded_cache = looked.cache] ELSE st
      out == composed(st.header, mem_apply_replacements(text, st.replacements), st.footer)
      kind == IF m.media \in {"photo", "document"} THEN "copy_message" ELSE "send_message"
      call == MemCall(kind, st.channels.target, m, out, raises)
  IN  IF ~ReachesDupCheck(st, m) THEN [state |-> st, calls |-> <<>>, sent |-> FALSE]
      ELSE IF st.dup_check /\ looked.found
             THEN [state |-> checked, calls |-> <<>>, sent |-> FALSE]
      ELSE IF is_blocked_message(text, st.blocked)
             THEN [state |-> checked, calls |-> <<>>, sent |-> FALSE]
      ELSE IF raises
             THEN [state |-> [checked EXCEPT !.forwarded_cache =
                                add_forwarded_cache(checked.forwarded_cache, key, now)],
                   calls |-> <<call>>, sent |-> FALSE]
      ELSE [state |-> [checked EXCEPT !.forwarded_cache =
                         add_forwarded_cache(checked.forwarded_cache, key, now)],
            calls |-> <<call>>, sent |-> TRUE]

\* handle_incoming (lines 411-476) at time now; raises: the Bot API call
\* fails.  [state, calls, sent].
handle_incoming(st, m, now, raises) ==
  LET text == IF Truthy(m.text) THEN m.text ELSE OrEmpty(m.caption)
      key == unique_key(m)
      looked == forwarded_cache_exists(st.forwarded_cache, key, now)
      checked == IF st.dup_check THEN [st EXCEPT !.forwarded_cache = looked.cache] ELSE st
      out == composed(st.header, mem_apply_replacements(text, st.replacements), st.footer)
      kind == IF m.media \in {"photo", "document"} THEN "copy_message" ELSE "send_message"
      call == MemCall(kind, st.channels.target, m, out, raises)
  IN  IF ~ReachesDupCheck(st, m) THEN [state |-> st, calls |-> <<>>, sent |-> FALSE]
      ELSE IF st.dup_check /\ looked.found
             THEN [state |-> checked, calls |-> <<>>, sent |-> FALSE]
      ELSE IF is_blocked_message(text, st.blocked)
             THEN [state |-> checked, calls |-> <<>>, sent |-> FALSE]
      ELSE IF raises THEN [state |-> checked, calls |-> <<call>>, sent |-> FALSE]
      ELSE [state |-> [checked EXCEPT !.forwarded_cache =
                         add_forwarded_cache(checked.forwarded_cache, key, now)],
            calls |-> <<call>>, sent |-> TRUE]

\* callback_router (lines 278-304): the control and toggle buttons.
callback_router(st, data) ==
  IF data = "control_start" THEN [st EXCEPT !.enabled = TRUE]
  ELSE IF data = "control_stop" THEN [st EXCEPT !.enabled = FALSE]
  ELSE IF data = "control_restart" THEN [st EXCEPT !.forwarded_cache = <<>>, !.enabled = TRUE]
  ELSE IF data = "toggle_logging" THEN [st EXCEPT !.logging = ~st.logging]
  ELSE IF data = "toggle_dup" THEN [st EXCEPT !.dup_check = ~st.dup_check]
  ELSE st

MemButtons ==
  {"control_start", "control_stop", "control_restart", "toggle_logging", "toggle_dup"}

\* The state after the source and the target have been set from the menu
\* (text_handler, lines 325-334), with and without a blocked value.
MemConfigured(blocked) ==
  [initial_state EXCEPT !.channels = [source |-> S_src_id, target |-> S_dst_id],
                        !.blocked = blocked]

\* text_handler with expect "add_blacklist" (lines 377-381).
add_blacklist(st, text) == [st EXCEPT !.blacklist = Append(@, text)]

\* The last seed: the admin has added "spam" through the Add Blacklist flow.
MemSeeds ==
  {MemConfigured(<<>>), MemConfigured(<<W_spam>>), add_blacklist(MemConfigured(<<>>), W_spam)}

\* A post, the same post after an edit, a photo, and a post of another chat.
MemMessages ==
  {Msg(ChanChat, 1, T_big_SALE_today, None, "none", FALSE, FALSE, FALSE),
   Msg(ChanChat, 1, T_buy_spam_now, None, "none", FALSE, FALSE, FALSE),
   Msg(ChanChat, 2, None, T_foo_foo, "photo", FALSE, FALSE, FALSE),
   Msg(PlainChat, 1, T_big_SALE_today, None, "none", FALSE, FALSE, FALSE)}

MaxMemOps == 1
MaxClock == 5401

\* The steps of the clock: half the ttl, and the ttl and one second.
Ticks == {cache_ttl \div 2, cache_ttl + 1}

InitMem ==
  /\ prog = "mem"
  /\ rules = <<>>
  /\ cfg = DefaultConfig
  /\ inbox = NoMsg
  /\ pending = <<>>
  /\ jobs = {}
  /\ calls = <<>>
  /\ aborted = FALSE
  /\ last = NoMsg
  /\ prior = {}
  /\ nops = 0
  /\ lab = NoLab
  /\ AdminIdle
  /\ mem \in MemSeeds
  /\ clock = 0
  /\ seen = [handled |-> <<>>, sent |-> <<>>, before |-> [handled |-> {}, sent |-> {}]]

\* The time key was recorded at in history h, if it was.
When(h, key) == IF key \in DOMAIN h THEN {h[key]} ELSE {}

Recorded(h, key, now) == [k \in DOMAIN h \cup {key} |-> IF k = key THEN now ELSE h[k]]

\* An update reaches handle_incoming.  seen.handled: when each key last got
\* past the duplicate check; seen.sent: when it was last sent without an
\* error; seen.before: both as they were when this update arrived.
MemIncoming ==
  /\ prog = "mem"
  /\ \E m \in MemMessages, raises \in BOOLEAN :
       LET key == unique_key(m)
           res == handle_incoming(mem, m, clock, raises)
           evaluated == ReachesDupCheck(mem, m)
                          /\ ~(mem.dup_check
                               /\ forwarded_cache_exists(mem.forwarded_cache, key, clock).found)
       IN  /\ mem' = res.state
           /\ calls' = res.calls
           /\ last' = m
           /\ seen' = [handled |-> IF evaluated THEN Recorded(seen.handled, key, clock)
                                   ELSE seen.handled,
                       sent |-> IF res.sent THEN Recorded(seen.sent, key, clock)
                                ELSE seen.sent,
                       before |-> [handled |-> When(seen.handled, key),
                                   sent |-> When(seen.sent, key)]]
  /\ UNCHANGED <<prog, rules, cfg, inbox, pending, jobs, aborted, prior, nops, lab,
                 admin_vars, clock>>

\* Anyone presses a control or toggle button.  control_restart empties the
\* cache, and with it the record of what was sent.
MemButton ==
  /\ prog = "mem"
  /\ nops < MaxMemOps
  /\ \E data \in MemButtons :
       /\ mem' = callback_router(mem, data)
       /\ seen' = [seen EXCEPT !.sent = IF data = "control_restart" THEN <<>> ELSE @,
                               !.before = [handled |-> {}, sent |-> {}]]
  /\ nops' = nops + 1
  /\ calls' = <<>>
  /\ last' = NoMsg
  /\ UNCHANGED <<prog, rules, cfg, inbox, pending, jobs, aborted, prior, lab,
                 admin_vars, clock>>

\* Time passes.
MemTick ==
  /\ prog = "mem"
  /\ \E d \in Ticks :
       /\ clock + d <= MaxClock
       /\ clock' = clock + d
  /\ calls' = <<>>
  /\ last' = NoMsg
  /\ seen' = [seen EXCEPT !.before = [handled |-> {}, sent |-> {}]]
  /\ UNCHANGED <<prog, rules, cfg, inbox, pending, jobs, aborted, prior, nops, lab,
                 admin_vars, mem>>

NextMem ==
  \/ MemIncoming
  \/ MemButton
  \/ MemTick

SpecMem == InitMem /\ [][NextMem]_vars

(* ------------------------------------------------------------------ *)
(* src/app.py: the configuration dialog, by any chat                   *)
(* ------------------------------------------------------------------ *)

MaxDialogSteps == 3

\* The buttons of the dialog: those that act at once, and those that open a
\* conversation state.
DialogData(store) ==
  {<<"main", "menu">>, <<"create", "new", "rule">>}
    \cup UNION {{<<"toggle", "active", IdPart(store[i].id)>>,
                 <<"delete", "rule", IdPart(store[i].id)>>,
                 <<"clear", "replacements", IdPart(store[i].id)>>,
                 <<"set", "destination", IdPart(store[i].id)>>,
                 <<"add", "blacklist", "word", IdPart(store[i].id)>>,
                 <<"add", "replacement", "find", IdPart(store[i].id)>>,
                 <<"set", "suffix", IdPart(store[i].id)>>} : i \in DOMAIN store}

\* What a user types into the dialog.
DialogTexts == {S_dst_id, W_spam, S_id_and_CHAN}

\* The id the database gives the next row: one past the largest id in the
\* table, or one past the largest id ever given.
NextIds(store, gone) ==
  LET Largest(S) == IF S = {} THEN 0 ELSE CHOOSE x \in S : \A y \in S : y <= x
      ids == {store[i].id : i \in DOMAIN store}
  IN  {Largest(ids) + 1, Largest(ids \cup gone) + 1}

\* The MessageHandler of the conversation state `state` (main, lines
\* 1094-1106) run on the text.  Outside a conversation the text reaches
\* forward_message only, which writes neither the store nor user_data.
conversation_text(store, next_id, state, user_data, chat_id, text) ==
  IF state = "SET_RULE_NAME" THEN set_rule_name(store, next_id, user_data, chat_id, text)
  ELSE IF state = "SET_SOURCE_ID"
       THEN handle_chat_id_input(store, user_data, chat_id, text, "SOURCE_CHAT_ID")
  ELSE IF state = "SET_DESTINATION_ID"
       THEN handle_chat_id_input(store, user_data, chat_id, text, "DESTINATION_CHAT_ID")
  ELSE IF state = "SET_REPLACEMENT_FIND" THEN set_replacement_find(store, user_data, chat_id, text)
  ELSE IF state = "SET_REPLACEMENT_REPLACE"
       THEN set_replacement_replace(store, user_data, chat_id, text)
  ELSE IF state = "SET_BLACKLIST_WORD"
       THEN set_list_word(store, user_data, chat_id, text, "WORD_BLACKLIST")
  ELSE IF state = "SET_WHITELIST_WORD"
       THEN set_list_word(store, user_data, chat_id, text, "WORD_WHITELIST")
  ELSE IF state \in {"SET_PREFIX_TEXT", "SET_SUFFIX_TEXT"}
       THEN set_prefix_suffix_text(store, user_data, chat_id, text)
  ELSE Handled(store, "KEEP", user_data)

InitAdmin ==
  /\ prog = "admin"
  /\ rules \in {<<>>, StoreForward}
  /\ cfg = DefaultConfig
  /\ inbox = NoMsg
  /\ pending = <<>>
  /\ jobs = {}
  /\ calls = <<>>
  /\ aborted = FALSE
  /\ last = NoMsg
  /\ prior = {}
  /\ nops = 0
  /\ lab = NoLab
  /\ AdminIdle
  /\ MemIdle

\* The state the ConversationHandler keeps for the chat after a handler
\* returned `state`.
ConvAfter(old, state) == IF state = "KEEP" THEN old ELSE state

\* A chat presses a button: handle_callback, as entry point or fallback of
\* the ConversationHandler.  lab records the update.
DialogPress ==
  /\ prog = "admin"
  /\ nops < MaxDialogSteps
  /\ \E chat_id \in Users, parts \in DialogData(rules) :
       LET res == handle_callback(rules, ud[chat_id], chat_id, parts)
       IN  /\ rules' = res.rules
           /\ ud' = [ud EXCEPT ![chat_id] = res.ud]
           /\ conv' = [conv EXCEPT ![chat_id] = ConvAfter(conv[chat_id], res.state)]
           /\ actor' = chat_id
           /\ removed' = removed \cup DeletedBy(rules, chat_id, parts)
           /\ lab' = [fn |-> "callback", data |-> parts, was |-> conv[chat_id]]
  /\ nops' = nops + 1
  /\ UNCHANGED <<prog, cfg, inbox, pending, jobs, calls, aborted, last, prior, mem_vars>>

\* A chat sends a text message.
DialogText ==
  /\ prog = "admin"
  /\ nops < MaxDialogSteps
  /\ \E chat_id \in Users, text \in DialogTexts, next_id \in NextIds(rules, removed) :
       LET res == conversation_text(rules, next_id, conv[chat_id], ud[chat_id], chat_id, text)
       IN  /\ rules' = res.rules
           /\ ud' = [ud EXCEPT ![chat_id] = res.ud]
           /\ conv' = [conv EXCEPT ![chat_id] = ConvAfter(conv[chat_id], res.state)]
           /\ actor' = chat_id
           /\ lab' = [fn |-> "text", data |-> text, was |-> conv[chat_id],
                       had |-> Len(rules)]
  /\ nops' = nops + 1
  /\ UNCHANGED <<prog, cfg, inbox, pending, jobs, calls, aborted, last, prior, removed,
                 mem_vars>>

NextAdmin ==
  \/ DialogPress
  \/ DialogText

SpecAdmin == InitAdmin /\ [][NextAdmin]_vars

(* ------------------------------------------------------------------ *)
(* The link and mention filters on their own                           *)
(* ------------------------------------------------------------------ *)

L_HTTP_upper == <<"H","T","T","P",":","/","/","x",".","y">>
L_http == <<"h","t","t","p",":","/","/","x",".","y">>
L_Https == <<"s","e","e"," ","H","t","t","p","s",":","/","/","x",".","y">>
L_WWW_upper == <<"W","W","W",".","x",".","y">>
L_www == <<"w","w","w",".","x",".","y">>
L_tme == <<"j","o","i","n"," ","t",".","m","e","/","x">>
L_TME == <<"j","o","i","n"," ","T",".","M","E","/","x">>
L_at_bob == <<"h","i"," ","@","b","o","b">>
L_at_Bob == <<"h","i"," ","@","B","o","b">>
L_at_alone == <<"m","a","i","l"," ","m","e"," ","@"," ","h","o","m","e">>
L_plain == <<"b","i","g"," ","s","a","l","e">>
L_http_word == <<"t","h","e"," ","h","t","t","p"," ","v","e","r","b">>

LinkTexts ==
  {L_HTTP_upper, L_http, L_Https, L_WWW_upper, L_www, L_tme,
   L_TME, L_at_bob, L_at_Bob, L_at_alone, L_plain, L_http_word}

InitLinks ==
  /\ prog = "links"
  /\ rules = <<>>
  /\ cfg = DefaultConfig
  /\ inbox = NoMsg
  /\ pending = <<>>
  /\ jobs = {}
  /\ calls = <<>>
  /\ aborted = FALSE
  /\ last = NoMsg
  /\ prior = {}
  /\ nops = 0
  /\ AdminIdle
  /\ MemIdle
  /\ lab \in [fn : {"input"}, text : LinkTexts, block_links : BOOLEAN,
              block_usernames : BOOLEAN, out : {FALSE}]

LinksReady == prog = "links" /\ lab.fn = "input"

\* forward_message (src/app.py) for a rule with no lists and the two flags
\* as drawn: whether the filters skip the text message.
AppLinkFilter ==
  /\ LinksReady
  /\ LET rule == [ForwardRule(1, N_r1) EXCEPT !.BLOCK_LINKS = lab.block_links,
                                              !.BLOCK_USERNAMES = lab.block_usernames]
     IN  lab' = [lab EXCEPT !.fn = "forward_message",
                            !.out = ~PassesFilters(rule, TextMsg(lab.text))]
  /\ UNCHANGED relay_vars

\* process_and_send (src/bot.py) for a configuration with no lists and the
\* two flags as drawn: whether it returns before the try.
BotLinkFilter ==
  /\ LinksReady
  /\ LET c == [Routed(S_src_id, S_dst_id) EXCEPT !.block_links = lab.block_links,
                                                 !.block_usernames = lab.block_usernames]
     IN  lab' = [lab EXCEPT !.fn = "process_and_send",
                            !.out = BotFiltered(c, TextMsg(lab.text))]
  /\ UNCHANGED relay_vars

NextLinks ==
  \/ AppLinkFilter
  \/ BotLinkFilter

SpecLinks == InitLinks /\ [][NextLinks]_vars

\* ---------------------------------------------------------------------------
\* Two replacement pairs, stored one after the other (SpecPairs)
\* ---------------------------------------------------------------------------

MaxPairTextLen == 2

Letters == {"a", "b", "c"}

PairTexts == UNION {[1..k -> Letters] : k \in 0..MaxPairTextLen}
PairFinds == [1..1 -> Letters]
PairReplaces == [1..1 -> Letters] \cup {<<"c", "a">>}

InitPairs ==
  /\ prog = "pairs"
  /\ rules = <<>>
  /\ cfg = DefaultConfig
  /\ inbox = NoMsg
  /\ pending = <<>>
  /\ jobs = {}
  /\ calls = <<>>
  /\ aborted = FALSE
  /\ last = NoMsg
  /\ prior = {}
  /\ nops = 0
  /\ AdminIdle
  /\ MemIdle
  /\ lab \in [fn : {"input"}, text : PairTexts, find1 : PairFinds, replace1 : PairReplaces,
              find2 : PairFinds, replace2 : PairReplaces, out : {None}]

PairsReady == prog = "pairs" /\ lab.fn = "input"

\* src/app.py: the admin adds the two pairs to a new rule through the
\* dialog, then forward_message processes the text for that rule.
AppPairs ==
  /\ PairsReady
  /\ LET store == WithReplacement(
                    WithReplacement(Created(<<>>, 1, N_r1), 1, lab.find1, lab.replace1),
                    1, lab.find2, lab.replace2)
     IN  lab' = [lab EXCEPT !.fn = "forward_message",
                            !.out = TextProcessing(get_rule_by_id(store, 1),
                                                   TextMsg(lab.text)).text]
  /\ UNCHANGED relay_vars

\* src/bot.py: the admin sends /replace twice, then apply_replacements runs.
BotPairs ==
  /\ PairsReady
  /\ LET c0 == cmd_start(DefaultConfig, FORCE_ADMIN_ID, <<>>)
         c1 == cmd_replace(c0, FORCE_ADMIN_ID, <<lab.find1 \o <<"|">> \o lab.replace1>>)
         c2 == cmd_replace(c1, FORCE_ADMIN_ID, <<lab.find2 \o <<"|">> \o lab.replace2>>)
     IN  lab' = [lab EXCEPT !.fn = "apply_replacements",
                            !.out = bot_apply_replacements(lab.text, c2.replace)]
  /\ UNCHANGED relay_vars

\* src/src/app.py: the Add Replacement flow appends the two pairs to
\* state["replacements"] (text_handler), then apply_replacements runs.
MemPairs ==
  /\ PairsReady
  /\ lab' = [lab EXCEPT !.fn = "mem_apply_replacements",
                        !.out = mem_apply_replacements(lab.text,
                                  <<<<lab.find1, lab.replace1>>, <<lab.find2, lab.replace2>>>>)]
  /\ UNCHANGED relay_vars

\* What set_prefix_suffix_text can have stored: "" (also after 'clear')
\* or the admin's text.
Affixes == {<<>>, <<"b">>}

\* src/app.py: text_modified and final_text of forward_message for a rule
\* with the two pairs and a prefix and suffix the admin has stored.
AppModified ==
  /\ PairsReady
  /\ \E prefix \in Affixes, suffix \in Affixes :
       LET store == WithReplacement(
                      WithReplacement(Created(<<>>, 1, N_r1), 1, lab.find1, lab.replace1),
                      1, lab.find2, lab.replace2)
           rule == [get_rule_by_id(store, 1) EXCEPT !.PREFIX_TEXT = prefix,
                                                    !.SUFFIX_TEXT = suffix]
           tp == TextProcessing(rule, TextMsg(lab.text))
       IN  lab' = [fn |-> "text_modified", text |-> lab.text,
                   find1 |-> lab.find1, replace1 |-> lab.replace1,
                   find2 |-> lab.find2, replace2 |-> lab.replace2,
                   prefix |-> prefix, suffix |-> suffix,
                   out |-> tp.text, modified |-> tp.modified]
  /\ UNCHANGED relay_vars

NextPairs ==
  \/ AppPairs
  \/ BotPairs
  \/ MemPairs
  \/ AppModified

SpecPairs == InitPairs /\ [][NextPairs]_vars

\* ---------------------------------------------------------------------------
\* src/app.py: one rule, one message, one run of forward_message (SpecPlan)
\* ---------------------------------------------------------------------------

\* A text, a photo and a document with and without caption, a sticker, an
\* attachment no handler names (poll, video note) and a service message.
PlanShapes ==
  {<<T_foo_foo, None, "none", FALSE>>,
   <<None, T_foo_foo, "photo", FALSE>>, <<None, None, "photo", FALSE>>,
   <<None, T_foo_foo, "document", FALSE>>, <<None, None, "document", FALSE>>,
   <<None, None, "sticker", FALSE>>, <<None, None, "other", FALSE>>,
   <<None, None, "none", TRUE>>}

PlanMessages == {Msg(ChanChat, 1, sh[1], sh[2], sh[3], sh[4], FALSE, FALSE) : sh \in PlanShapes}

InitPlan ==
  /\ prog = "plan"
  /\ rules = <<>>
  /\ cfg = DefaultConfig
  /\ inbox = NoMsg
  /\ pending = <<>>
  /\ jobs = {}
  /\ calls = <<>>
  /\ aborted = FALSE
  /\ last = NoMsg
  /\ prior = {}
  /\ nops = 0
  /\ AdminIdle
  /\ MemIdle
  /\ lab \in [fn : {"input"}, msg : PlanMessages, mode : {"COPY", "FORWARD"},
              remove_buttons : BOOLEAN, remove_caption : BOOLEAN,
              prefix : Affixes, replace : BOOLEAN]

\* The store the admin has configured: rule 1 relays chat -100111, with the
\* mode, the two toggles, the prefix and the pair foo -> bar of the input.
PlanStore ==
  LET s1 == WithChat(WithChat(Created(<<>>, 1, N_r1), 1, "source", S_src_id),
                     1, "destination", S_dst_id)
      s2 == IF lab.mode = "FORWARD" THEN Pressed(s1, <<"set", "mode", "forward", "1">>) ELSE s1
      s3 == IF lab.remove_buttons THEN s2 ELSE Pressed(s2, <<"toggle", "remove", "buttons", "1">>)
      s4 == IF lab.remove_caption THEN Pressed(s3, <<"toggle", "remove", "caption", "1">>) ELSE s3
      s5 == IF lab.replace THEN WithReplacement(s4, 1, W_foo, W_bar) ELSE s4
  IN  save_rule_to_db(s5, [get_rule_by_id(s5, 1) EXCEPT !.PREFIX_TEXT = lab.prefix])

\* forward_message for the message; the transport call may raise.
PlanDispatch ==
  /\ prog = "plan"
  /\ lab.fn = "input"
  /\ \E fails \in SUBSET Dispatching(PlanStore, lab.msg) :
       LET res == forward_message(PlanStore, lab.msg, fails, {})
       IN  lab' = [fn |-> "forward_message", msg |-> lab.msg,
                   rule |-> get_rule_by_id(PlanStore, 1),
                   calls |-> res.calls, failed |-> fails # {}]
  /\ UNCHANGED relay_vars

NextPlan ==
  \/ PlanDispatch

SpecPlan == InitPlan /\ [][NextPlan]_vars

\* ---------------------------------------------------------------------------
\* src/app.py: forward_message step by step, with its blocking pause (SpecSeq)
\* ---------------------------------------------------------------------------

\* The "5 Sec" choice of the delay keyboard (line 518).
SeqDelay == 5

MaxSeqClock == 6

\* The message ids of the channel's posts, in the order they arrive.
SeqPosts == {1, 2}

\* time.sleep(d) entered at began returns at now.
SleepOver_AtOnce(began, d, now) == TRUE

\* time.sleep(d) entered at began returns at now (line 999).
SleepOver(began, d, now) == now >= began + d

\* Rows of the rules table: two rules relaying chat -100111, each with
\* FORWARD_DELAY_SECONDS 0 or 5.
SeqStore(d1, d2) ==
  LET s1 == WithChat(WithChat(Created(<<>>, 1, N_r1), 1, "source", S_src_id),
                     1, "destination", S_dst_id)
      s2 == WithChat(WithChat(Created(s1, 2, N_r2), 2, "source", S_src_id),
                     2, "destination", S_dst_id)
      s3 == save_rule_to_db(s2, [get_rule_by_id(s2, 1) EXCEPT !.FORWARD_DELAY_SECONDS = d1])
  IN  save_rule_to_db(s3, [get_rule_by_id(s3, 2) EXCEPT !.FORWARD_DELAY_SECONDS = d2])

\* The k-th post of the channel.
SeqMsg(k) == Msg(ChanChat, k, T_big_SALE_today, None, "none", FALSE, FALSE, FALSE)

\* A step of the worker.  waited: the seconds since a delayed rule entered
\* time.sleep; queued: the updates waiting for the worker at that step.
Event(ev, mid, rule_id, kind, raised, waited) ==
  [ev |-> ev, msg |-> mid, rule |-> rule_id, kind |-> kind, raised |-> raised,
   waited |-> waited, queued |-> Len(lab.queue)]

InitSeq ==
  /\ prog = "seq"
  /\ rules \in {SeqStore(d1, d2) : d1 \in {0, SeqDelay}, d2 \in {0, SeqDelay}}
  /\ cfg = DefaultConfig
  /\ inbox = NoMsg
  /\ pending = <<>>
  /\ jobs = {}
  /\ calls = <<>>
  /\ aborted = FALSE
  /\ last = NoMsg
  /\ prior = {}
  /\ nops = 0
  /\ AdminIdle
  /\ MemIdle
  /\ lab = [fn |-> "idle", queue |-> <<>>, msg |-> NoMsg, todo |-> <<>>, began |-> 0,
            log |-> <<>>, next_id |-> 1]

seq_rest ==
  <<prog, rules, cfg, inbox, pending, jobs, calls, aborted, last, prior, nops,
    admin_vars, mem, seen>>

\* The loop goes on to the rest of matching_rules, or forward_message returns.
SeqAdvance(todo) == IF todo = <<>> THEN "idle" ELSE "filter"

\* Telegram holds a new post of the channel for the bot.
SeqArrive ==
  /\ prog = "seq"
  /\ lab.next_id \in SeqPosts
  /\ lab' = [lab EXCEPT !.queue = Append(@, SeqMsg(lab.next_id)),
                        !.next_id = @ + 1]
  /\ UNCHANGED <<seq_rest, clock>>

\* The application takes the next update and calls forward_message: lines
\* 891-937 build matching_rules.
SeqBegin ==
  /\ prog = "seq"
  /\ lab.fn = "idle"
  /\ lab.queue # <<>>
  /\ \E all_rules \in get_all_rules(rules) :
       LET m == Head(lab.queue)
           todo == matching_rules(all_rules, m)
       IN  lab' = [lab EXCEPT !.fn = SeqAdvance(todo), !.queue = Tail(@), !.msg = m,
                              !.todo = todo,
                              !.log = Append(@, Event("begin", m.message_id, 0, "", FALSE, 0))]
  /\ UNCHANGED <<seq_rest, clock>>

\* The filters and the text processing of the next rule (lines 939-995),
\* up to the entry of time.sleep.
SeqFilter ==
  /\ prog = "seq"
  /\ lab.fn = "filter"
  /\ LET rule == Head(lab.todo)
     IN  IF ~PassesFilters(rule, lab.msg)
         THEN lab' = [lab EXCEPT !.fn = SeqAdvance(Tail(lab.todo)), !.todo = Tail(@),
                                 !.log = Append(@, Event("done", lab.msg.message_id, rule.id,
                                                         "skip", FALSE, 0))]
         ELSE lab' = [lab EXCEPT !.fn = IF rule.FORWARD_DELAY_SECONDS > 0 THEN "sleep" ELSE "try",
                                 !.began = IF rule.FORWARD_DELAY_SECONDS > 0 THEN clock ELSE 0,
                                 !.log = Append(@, Event("filter", lab.msg.message_id, rule.id,
                                                         "", FALSE, 0))]
  /\ UNCHANGED <<seq_rest, clock>>

\* time.sleep returns (line 999).
SeqWake ==
  /\ prog = "seq"
  /\ lab.fn = "sleep"
  /\ SleepOver(lab.began, Head(lab.todo).FORWARD_DELAY_SECONDS, clock)
  /\ lab' = [lab EXCEPT !.fn = "try"]
  /\ UNCHANGED <<seq_rest, clock>>

\* The emptiness check and the try block (lines 1001-1077): the transport
\* call, which may raise; the error report may raise too and then leaves
\* forward_message.
SeqTry ==
  /\ prog = "seq"
  /\ lab.fn = "try"
  /\ LET rule == Head(lab.todo)
         kind == IF SkippedAsEmpty(rule, lab.msg) THEN "skip" ELSE TransportCall(rule, lab.msg)
     IN  \E raised \in (IF kind \in DispatchKinds THEN BOOLEAN ELSE {FALSE}) :
         \E left \in (IF raised THEN BOOLEAN ELSE {FALSE}) :
           LET todo == IF left THEN <<>> ELSE Tail(lab.todo)
               waited == IF rule.FORWARD_DELAY_SECONDS > 0 THEN clock - lab.began ELSE 0
           IN  lab' = [lab EXCEPT !.fn = SeqAdvance(todo), !.todo = todo, !.began = 0,
                                  !.log = Append(@, Event("done", lab.msg.message_id, rule.id,
                                                          kind, raised, waited))]
  /\ UNCHANGED <<seq_rest, clock>>

\* A second passes.
SeqTick ==
  /\ prog = "seq"
  /\ clock < MaxSeqClock
  /\ clock' = clock + 1
  /\ UNCHANGED <<seq_rest, lab>>

NextSeq ==
  \/ SeqArrive
  \/ SeqBegin
  \/ SeqFilter
  \/ SeqWake
  \/ SeqTry
  \/ SeqTick

SpecSeq == InitSeq /\ [][NextSeq]_vars

\* ---------------------------------------------------------------------------
\* src/app.py: adding words to and clearing the lists of a rule (SpecWords)
\* ---------------------------------------------------------------------------

MaxWordOps == 3

W_messy == <<" ","S","P","A","M"," ",","," ",",","s","a","l","e",",">>

\* What the admin types when asked for a word.
WordTexts == {W_spam, W_Sale, W_messy}

Lists == {"blacklist", "whitelist"}

ListAttr(which) == IF which = "blacklist" THEN "WORD_BLACKLIST" ELSE "WORD_WHITELIST"

InitWords ==
  /\ prog = "words"
  /\ rules = Created(<<>>, 1, N_r1)
  /\ cfg = DefaultConfig
  /\ inbox = NoMsg
  /\ pending = <<>>
  /\ jobs = {}
  /\ calls = <<>>
  /\ aborted = FALSE
  /\ last = NoMsg
  /\ prior = {}
  /\ nops = 0
  /\ AdminIdle
  /\ MemIdle
  /\ lab = NoLab

\* The admin presses add_<list>_word_<id> and sends the text:
\* handle_callback, then set_list_word.
AddWords ==
  /\ prog = "words"
  /\ nops < MaxWordOps
  /\ \E which \in Lists, text \in WordTexts :
       /\ rules' = WithWords(rules, 1, which, text)
       /\ lab' = [fn |-> "set_list_word", list |-> which, text |-> text,
                  before |-> get_rule_by_id(rules, 1)[ListAttr(which)]]
  /\ nops' = nops + 1
  /\ UNCHANGED <<prog, cfg, inbox, pending, jobs, calls, aborted, last, prior,
                 admin_vars, mem_vars>>

\* The admin presses clear_<list>_<id>.
ClearWords ==
  /\ prog = "words"
  /\ nops < MaxWordOps
  /\ \E which \in Lists :
       /\ rules' = Pressed(rules, <<"clear", which, "1">>)
       /\ lab' = [fn |-> "clear", list |-> which, text |-> <<>>,
                  before |-> get_rule_by_id(rules, 1)[ListAttr(which)]]
  /\ nops' = nops + 1
  /\ UNCHANGED <<prog, cfg, inbox, pending, jobs, calls, aborted, last, prior,
                 admin_vars, mem_vars>>

NextWords ==
  \/ AddWords
  \/ ClearWords

SpecWords == InitWords /\ [][NextWords]_vars

\* ---------------------------------------------------------------------------
\* src/app.py: the admin walks the inline keyboards (SpecMenu)
\* ---------------------------------------------------------------------------

MaxMenuSteps == 4

\* A keyboard is the set of the callback data of its buttons, each kept as
\* the list data.split('_') yields.
create_back_keyboard(callback_data) == {callback_data}

create_rule_list_keyboard(store) ==
  {<<"select", "rule", IdPart(store[i].id)>> : i \in DOMAIN store}
    \cup {<<"create", "new", "rule">>, <<"add", "button", "menu">>}

create_rule_settings_keyboard(id) ==
  {<<"menu", "core", id>>, <<"menu", "text", id>>, <<"menu", "mode", "delay", id>>,
   <<"toggle", "block", "links", id>>, <<"toggle", "block", "usernames", id>>,
   <<"menu", "media", "filters", id>>, <<"menu", "advanced", "actions", id>>,
   <<"toggle", "active", id>>, <<"delete", "rule", id>>, <<"main", "menu">>}

create_core_settings_keyboard(id) ==
  {<<"set", "source", id>>, <<"set", "destination", id>>, <<"select", "rule", id>>}

create_media_filters_keyboard(id) ==
  {<<"toggle", "block", "media", id>>, <<"toggle", "block", "forwards", id>>,
   <<"toggle", "remove", "buttons", id>>, <<"toggle", "remove", "caption", id>>,
   <<"select", "rule", id>>}

create_advanced_actions_keyboard(id) ==
  {<<"toggle", "silent", "forwarding", id>>, <<"toggle", "block", "service", "messages", id>>,
   <<"toggle", "block", "replies", id>>, <<"menu", "prefix", "suffix", id>>,
   <<"select", "rule", id>>}

create_text_menu_keyboard(id) ==
  {<<"menu", "replacement", id>>, <<"menu", "blacklist", id>>, <<"menu", "whitelist", id>>,
   <<"select", "rule", id>>}

create_replacement_menu_keyboard(id) ==
  {<<"add", "replacement", "find", id>>, <<"clear", "replacements", id>>,
   <<"delete", "replacement", "select", id>>, <<"menu", "text", id>>}

\* The keyboard of the prefix menu (line 443) and of the mode menu (lines
\* 446-451).
prefix_menu_keyboard(id) ==
  {<<"set", "prefix", id>>, <<"set", "suffix", id>>, <<"menu", "advanced", "actions", id>>}

mode_menu_keyboard(id) ==
  {<<"set", "mode", "forward", id>>, <<"set", "mode", "copy", id>>,
   <<"menu", "schedule", id>>, <<"select", "rule", id>>}

\* The message keeps the keyboard it had: the handler returned or raised
\* before any edit_message_text.
NotEdited == [edited |-> FALSE, keyboard |-> {}]
Edited(keyboard) == [edited |-> TRUE, keyboard |-> keyboard]

\* The reply_markup handle_callback puts on the message for callback data
\* `parts` pressed by the admin: the same if/elif chain, lines 372-634, for
\* a store whose rules hold no replacements.
callback_keyboard(store, parts) ==
  LET last_part == parts[Len(parts)]
      known == IsIntPart(last_part) /\ HasRule(store, IntOfPart(last_part))
  IN
  IF parts = <<"main", "menu">> THEN Edited(create_rule_list_keyboard(store))
  ELSE IF StartsWithParts(parts, <<"select", "rule">>) THEN
    (IF ~IsIntPart(parts[3]) THEN NotEdited
     ELSE IF HasRule(store, IntOfPart(parts[3]))
          THEN Edited(create_rule_settings_keyboard(parts[3]))
     ELSE Edited(create_back_keyboard(<<"main", "menu">>)))
  ELSE IF parts = <<"create", "new", "rule">>
       THEN Edited(create_back_keyboard(<<"main", "menu">>))
  ELSE IF StartsWithParts(parts, <<"delete", "rule">>) THEN
    (IF IsIntPart(parts[3]) THEN Edited(create_back_keyboard(<<"main", "menu">>)) ELSE NotEdited)
  ELSE IF parts = <<"add", "button", "menu">>
       THEN Edited(create_back_keyboard(<<"main", "menu">>))
  ELSE IF StartsWithParts(parts, <<"menu">>) THEN
    (IF ~IsIntPart(last_part) THEN NotEdited
     ELSE IF parts[2] = "core" THEN Edited(create_core_settings_keyboard(last_part))
     ELSE IF parts[2] = "text" THEN Edited(create_text_menu_keyboard(last_part))
     ELSE IF parts[2] = "replacement" THEN Edited(create_replacement_menu_keyboard(last_part))
     ELSE IF parts[2] = "media"
          THEN (IF known THEN Edited(create_media_filters_keyboard(last_part)) ELSE NotEdited)
     ELSE IF parts[2] = "advanced"
          THEN (IF known THEN Edited(create_advanced_actions_keyboard(last_part)) ELSE NotEdited)
     ELSE IF parts[2] = "prefix" THEN Edited(prefix_menu_keyboard(last_part))
     ELSE IF parts[2] = "mode"
          THEN (IF known THEN Edited(mode_menu_keyboard(last_part)) ELSE NotEdited)
     ELSE NotEdited)
  ELSE IF StartsWithParts(parts, <<"toggle">>) \/ StartsWithParts(parts, <<"set">>) THEN
    (IF ~IsIntPart(last_part) THEN NotEdited
     ELSE IF ~known THEN Edited(create_back_keyboard(<<"main", "menu">>))
     ELSE IF parts[1] = "toggle"
          THEN Edited(create_back_keyboard(<<"select", "rule", last_part>>))
     ELSE IF parts[2] \in {"source", "destination"}
          THEN Edited(create_back_keyboard(<<"menu", "core", last_part>>))
     ELSE IF parts[2] \in {"prefix", "suffix"}
          THEN Edited(create_back_keyboard(<<"menu", "advanced", "actions", last_part>>))
     ELSE IF parts[2] = "mode"
          THEN Edited(create_back_keyboard(<<"select", "rule", last_part>>))
     ELSE NotEdited)
  ELSE IF StartsWithParts(parts, <<"add", "replacement", "find">>) THEN
    (IF IsIntPart(last_part)
     THEN Edited(create_back_keyboard(<<"menu", "replacement", last_part>>))
     ELSE NotEdited)
  ELSE IF StartsWithParts(parts, <<"clear", "replacements">>) THEN
    (IF known THEN Edited(create_back_keyboard(<<"select", "rule", last_part>>)) ELSE NotEdited)
  ELSE IF StartsWithParts(parts, <<"delete", "replacement", "select">>) THEN
    (IF known THEN Edited(create_back_keyboard(<<"menu", "replacement", last_part>>))
     ELSE NotEdited)
  ELSE IF StartsWithParts(parts, <<"add", "blacklist", "word">>)
          \/ StartsWithParts(parts, <<"add", "whitelist", "word">>) THEN
    (IF IsIntPart(last_part)
     THEN Edited(create_back_keyboard(<<"menu", parts[2], last_part>>))
     ELSE NotEdited)
  ELSE IF StartsWithParts(parts, <<"clear", "blacklist">>)
          \/ StartsWithParts(parts, <<"clear", "whitelist">>) THEN
    (IF known THEN Edited(create_back_keyboard(<<"menu", "text", last_part>>)) ELSE NotEdited)
  ELSE NotEdited

\* lab.shown: the keyboard of the bot's menu message; lab.data: the button
\* pressed last; lab.before: the store before that press.
InitMenu ==
  /\ prog = "menu"
  /\ rules = StoreForward
  /\ cfg = DefaultConfig
  /\ inbox = NoMsg
  /\ pending = <<>>
  /\ jobs = {}
  /\ calls = <<>>
  /\ aborted = FALSE
  /\ last = NoMsg
  /\ prior = {}
  /\ nops = 0
  /\ AdminIdle
  /\ MemIdle
  /\ lab = [shown |-> create_rule_list_keyboard(StoreForward), data |-> <<>>,
            before |-> StoreForward]

\* The admin sends /start: start (lines 340-357) replies with the rule list.
MenuStart ==
  /\ prog = "menu"
  /\ nops < MaxMenuSteps
  /\ lab' = [shown |-> create_rule_list_keyboard(rules), data |-> <<"start">>,
             before |-> rules]
  /\ actor' = FORCE_ADMIN_ID
  /\ nops' = nops + 1
  /\ UNCHANGED <<prog, rules, cfg, inbox, pending, jobs, calls, aborted, last, prior,
                 removed, ud, conv, mem_vars>>

\* The admin presses a button of the keyboard the menu message shows.
MenuPress ==
  /\ prog = "menu"
  /\ nops < MaxMenuSteps
  /\ \E parts \in lab.shown :
       LET res == handle_callback(rules, ud[FORCE_ADMIN_ID], FORCE_ADMIN_ID, parts)
           kb == callback_keyboard(rules, parts)
       IN  /\ rules' = res.rules
           /\ ud' = [ud EXCEPT ![FORCE_ADMIN_ID] = res.ud]
           /\ conv' = [conv EXCEPT ![FORCE_ADMIN_ID] = ConvAfter(conv[FORCE_ADMIN_ID], res.state)]
           /\ removed' = removed \cup DeletedBy(rules, FORCE_ADMIN_ID, parts)
           /\ lab' = [shown |-> IF kb.edited THEN kb.keyboard ELSE lab.shown,
                      data |-> parts, before |-> rules]
  /\ actor' = FORCE_ADMIN_ID
  /\ nops' = nops + 1
  /\ UNCHANGED <<prog, cfg, inbox, pending, jobs, calls, aborted, last, prior, mem_vars>>

NextMenu ==
  \/ MenuStart
  \/ MenuPress

SpecMenu == InitMenu /\ [][NextMenu]_vars

\* ---------------------------------------------------------------------------
\* src/bot.py: message_router and schedule_checker on their two threads
\* (SpecRace)
\* ---------------------------------------------------------------------------

\* The updates of the source chat, by message id.
RacePosts == {1, 2, 3}

\* Ticks of the repeating job that find the clock at schedule_time.
MaxChecks == 2

\* lab.lists: the list objects ever bound to the global PENDING_MESSAGES, by
\* identity; lab.global: the one bound now.  lab.router: the dispatcher
\* thread inside message_router (its message and the list object it has
\* loaded); lab.checker: the job-queue thread inside schedule_checker (its
\* local `pending`).  lab.appended: the messages append was called for;
\* lab.handed: the messages given to process_and_send, in order.
InitRace ==
  /\ prog = "race"
  /\ rules = <<>>
  /\ cfg = DefaultConfig
  /\ inbox = NoMsg
  /\ pending = <<>>
  /\ jobs = {}
  /\ calls = <<>>
  /\ aborted = FALSE
  /\ last = NoMsg
  /\ prior = {}
  /\ nops = 0
  /\ AdminIdle
  /\ MemIdle
  /\ lab = [lists |-> [k \in 0..MaxChecks |-> <<>>], global |-> 0,
            router |-> [pc |-> "idle", msg |-> 0, ref |-> 0],
            checker |-> [pc |-> "idle", pending |-> <<>>],
            next_id |-> 1, appended |-> {}, handed |-> <<>>]

\* message_router up to line 151: a post of the source chat while a
\* schedule_time is set; the name PENDING_MESSAGES is evaluated to the list
\* object it is bound to.
RouterLoad ==
  /\ prog = "race"
  /\ lab.router.pc = "idle"
  /\ lab.next_id \in RacePosts
  /\ lab' = [lab EXCEPT !.router = [pc |-> "append", msg |-> lab.next_id, ref |-> lab.global],
                        !.next_id = @ + 1]
  /\ UNCHANGED relay_vars

\* list.append on the loaded object, and the return of line 152.
RouterAppend ==
  /\ prog = "race"
  /\ lab.router.pc = "append"
  /\ lab' = [lab EXCEPT !.lists[lab.router.ref] = Append(@, lab.router.msg),
                        !.appended = @ \cup {lab.router.msg},
                        !.router = [pc |-> "idle", msg |-> 0, ref |-> 0]]
  /\ UNCHANGED relay_vars

\* schedule_checker at a tick whose minute is schedule_time: line 177,
\* pending = list(PENDING_MESSAGES).
CheckerCopy ==
  /\ prog = "race"
  /\ lab.checker.pc = "idle"
  /\ nops < MaxChecks
  /\ lab' = [lab EXCEPT !.checker = [pc |-> "reset", pending |-> lab.lists[lab.global]]]
  /\ nops' = nops + 1
  /\ UNCHANGED <<prog, rules, cfg, inbox, pending, jobs, calls, aborted, last, prior,
                 admin_vars, mem_vars>>

\* Line 178, PENDING_MESSAGES = []: the global is bound to a new list.
CheckerReset ==
  /\ prog = "race"
  /\ lab.checker.pc = "reset"
  /\ lab' = [lab EXCEPT !.global = @ + 1, !.checker.pc = "send"]
  /\ UNCHANGED relay_vars

\* One round of the loop of lines 179-183, or its end.
CheckerSend ==
  /\ prog = "race"
  /\ lab.checker.pc = "send"
  /\ IF lab.checker.pending = <<>>
     THEN lab' = [lab EXCEPT !.checker.pc = "idle"]
     ELSE lab' = [lab EXCEPT !.handed = Append(@, Head(lab.checker.pending)),
                             !.checker.pending = Tail(@)]
  /\ UNCHANGED relay_vars

NextRace ==
  \/ RouterLoad
  \/ RouterAppend
  \/ CheckerCopy
  \/ CheckerReset
  \/ CheckerSend

SpecRace == InitRace /\ [][NextRace]_vars

\* ---------------------------------------------------------------------------
\* src/bot.py: the schedule queue under the repeating checker (SpecSched)
\* ---------------------------------------------------------------------------

MaxSchedCmds == 2

\* The posts of the source chat, by message id.
SchedPosts == {1, 2}

\* The minutes of the day the repeating job finds the clock at, one tick in
\* each (interval=60, line 373), day after day.
DayMinutes == <<<<9, 0>>, <<9, 1>>, <<22, 0>>>>

\* What the admin types after /setschedule.
SchedArgs == {<<"o","f","f">>, S_0900, S_900}

\* lab.tick: the place in DayMinutes of the checker's last tick; lab.queue:
\* PENDING_MESSAGES; lab.handed: the messages given to process_and_send, in
\* order; lab.queued: the messages ever appended to PENDING_MESSAGES.
InitSched ==
  /\ prog = "sched"
  /\ rules = <<>>
  /\ cfg = Routed(S_src_id, S_dst_id)
  /\ inbox = NoMsg
  /\ pending = <<>>
  /\ jobs = {}
  /\ calls = <<>>
  /\ aborted = FALSE
  /\ last = NoMsg
  /\ prior = {}
  /\ nops = 0
  /\ AdminIdle
  /\ MemIdle
  /\ lab = [tick |-> 1, queue |-> <<>>, handed |-> <<>>, queued |-> <<>>, next_id |-> 1]

sched_rest ==
  <<prog, rules, inbox, pending, jobs, calls, aborted, last, prior, admin_vars, mem_vars>>

\* The admin sends /setschedule <arg>.
SchedCommand ==
  /\ prog = "sched"
  /\ nops < MaxSchedCmds
  /\ \E arg \in SchedArgs : cfg' = cmd_setschedule(cfg, FORCE_ADMIN_ID, <<arg>>)
  /\ nops' = nops + 1
  /\ UNCHANGED <<sched_rest, lab>>

\* message_router for a post of the source chat: held back in
\* PENDING_MESSAGES when a schedule_time is set (lines 149-152), sent or
\* queued as a job otherwise.
SchedPost ==
  /\ prog = "sched"
  /\ lab.next_id \in SchedPosts
  /\ LET m == Msg(ChanChat, lab.next_id, T_big_SALE_today, None, "none", FALSE, FALSE, FALSE)
     IN  IF Route(cfg, m) = "pending"
         THEN lab' = [lab EXCEPT !.queue = Append(@, lab.next_id),
                                 !.queued = Append(@, lab.next_id),
                                 !.next_id = @ + 1]
         ELSE lab' = [lab EXCEPT !.next_id = @ + 1]
  /\ UNCHANGED <<sched_rest, cfg, nops>>

\* The next tick of the repeating job: schedule_checker (lines 170-187) at
\* the next minute of the day.
SchedTick ==
  /\ prog = "sched"
  /\ LET tick == (lab.tick % Len(DayMinutes)) + 1
         now == strftime_HM(DayMinutes[tick][1], DayMinutes[tick][2])
     IN  IF schedule_due(cfg.schedule_time, now)
         THEN lab' = [lab EXCEPT !.tick = tick, !.handed = @ \o lab.queue, !.queue = <<>>]
         ELSE lab' = [lab EXCEPT !.tick = tick]
  /\ UNCHANGED <<sched_rest, cfg, nops>>

NextSched ==
  \/ SchedCommand
  \/ SchedPost
  \/ SchedTick

\* run_repeating keeps calling the checker.
SpecSched == InitSched /\ [][NextSched]_vars /\ WF_vars(SchedTick)

\* ---------------------------------------------------------------------------
\* src/bot.py: who owns the configuration (SpecOwner)
\* ---------------------------------------------------------------------------

MaxOwnerCmds == 3

\* config.json as load_config creates it: admin_id unset.
InitOwner ==
  /\ prog = "owner"
  /\ rules = <<>>
  /\ cfg = DefaultConfig
  /\ inbox = NoMsg
  /\ pending = <<>>
  /\ jobs = {}
  /\ calls = <<>>
  /\ aborted = FALSE
  /\ last = NoMsg
  /\ prior = {}
  /\ nops = 0
  /\ AdminIdle
  /\ MemIdle
  /\ lab = NoLab

\* A user sends a command (main, lines 350-369); actor is that user.
OwnerCommand ==
  /\ prog = "owner"
  /\ nops < MaxOwnerCmds
  /\ \E uid \in Users, cmd \in BotCommands :
       /\ cfg' = RunCommand(cfg, uid, cmd[1], cmd[2])
       /\ actor' = uid
  /\ nops' = nops + 1
  /\ UNCHANGED <<prog, rules, inbox, pending, jobs, calls, aborted, last, prior, lab,
                 removed, ud, conv, mem_vars>>

NextOwner ==
  \/ OwnerCommand

SpecOwner == InitOwner /\ [][NextOwner]_vars

\* ---------------------------------------------------------------------------
\* Properties of the relay (Spec) and of the text functions (SpecText)
\* ---------------------------------------------------------------------------

\* The text a filter reads: the message text, else its caption, else nothing.
Body(m) == IF Truthy(m.text) THEN m.text ELSE IF Truthy(m.caption) THEN m.caption ELSE <<>>

\* The positions of the log that hold a dispatch to a destination.
DispatchCalls == {i \in DOMAIN calls : calls[i].kind \in DispatchKinds}

\* The dispatches of the log issued for rule id.
DispatchesFor(id) == {i \in DispatchCalls : calls[i].rule = id}

StoredRules == Range(rules)

\* C1: src/app.py issues no transport call on behalf of a rule whose
\* IS_ACTIVE is false: a rule that is inactive in the store has no entry in the
\* log of the invocation, dispatch or notification.
C1_InactiveRuleNeverDispatched ==
  prog = "app" =>
    \A r \in StoredRules : ~r.IS_ACTIVE => \A i \in DOMAIN calls : calls[i].rule # r.id

\* An inactive rule with a destination whose source matches the handled
\* message and whose filters would let it through stays silent while another
\* rule is dispatched.
C1_Witness ==
  /\ prog = "app"
  /\ last # NoMsg
  /\ DispatchCalls # {}
  /\ \E r \in StoredRules :
       /\ ~r.IS_ACTIVE
       /\ Truthy(r.DESTINATION_CHAT_ID)
       /\ is_match(r, last)
       /\ PassesFilters(r, last)
       /\ DispatchesFor(r.id) = {}

\* C2: the blacklist beats the whitelist and is case-insensitive: no message
\* whose lower-cased text or caption contains a blacklist term of the rule
\* (src/app.py) or of the configuration (src/bot.py) is dispatched for it,
\* whatever the whitelist holds.
C2_BlacklistedNeverDispatched ==
  \A i \in DispatchCalls :
    LET body == Lower(Body(calls[i].msg))
        blacklist == IF prog = "app"
                     THEN get_rule_by_id(rules, calls[i].rule).WORD_BLACKLIST
                     ELSE cfg.blacklist
    IN  \A k \in DOMAIN blacklist : ~Contains(body, Lower(blacklist[k]))

\* A message whose text holds a blacklist term in another case and a
\* whitelist term was handled, for an active matching rule, and nothing was
\* dispatched for that rule.
C2_Witness ==
  /\ prog = "app"
  /\ last # NoMsg
  /\ \E r \in StoredRules :
       /\ r.IS_ACTIVE
       /\ Truthy(r.DESTINATION_CHAT_ID)
       /\ is_match(r, last)
       /\ \E k \in DOMAIN r.WORD_BLACKLIST :
            /\ Contains(Lower(Body(last)), r.WORD_BLACKLIST[k])
            /\ ~Contains(Body(last), r.WORD_BLACKLIST[k])
       /\ \E k \in DOMAIN r.WORD_WHITELIST : Contains(Lower(Body(last)), r.WORD_WHITELIST[k])
       /\ DispatchesFor(r.id) = {}

\* C3: for one (source chat id, message id) and one rule at most one dispatch
\* is ever issued, edited posts included: a rule that has already delivered
\* the message is not dispatched for it again.
C3_AtMostOncePerRuleAndMessage ==
  prog = "app" => \A i \in DispatchCalls : calls[i].rule \notin prior

\* The edited post of a message a rule already delivered is dispatched again.
C3_Witness ==
  /\ prog = "app"
  /\ last # NoMsg
  /\ \E i \in DispatchCalls : calls[i].rule \in prior /\ ~calls[i].raised

\* C4: when the transport call of one matching rule fails, the remaining
\* matching rules are still evaluated and dispatched: every rule that matches
\* the handled message and has something to send has its dispatch in the log.
C4_FailureNeverAbortsTheLoop ==
  (prog = "app" /\ last # NoMsg /\ \E i \in DispatchCalls : calls[i].raised) =>
    \A r \in StoredRules :
      (IsMatchingRule(r, last) /\ Plan(r, last) \in DispatchKinds) => DispatchesFor(r.id) # {}

\* C5: a rule (src/app.py) or a configuration (src/bot.py) whose destination
\* is unset never produces a dispatch.
C5_NoDestinationNeverDispatched ==
  /\ prog = "app" =>
       \A r \in StoredRules :
         ~Truthy(r.DESTINATION_CHAT_ID) => \A i \in DOMAIN calls : calls[i].rule # r.id
  /\ prog = "bot" => (~Truthy(cfg.target_chat) => DispatchCalls = {})

\* An active rule without a destination whose source matches the handled
\* message stays silent while another rule is dispatched.
C5_Witness ==
  /\ prog = "app"
  /\ last # NoMsg
  /\ DispatchCalls # {}
  /\ \E r \in StoredRules :
       /\ r.IS_ACTIVE
       /\ ~Truthy(r.DESTINATION_CHAT_ID)
       /\ is_match(r, last)
       /\ PassesFilters(r, last)
       /\ DispatchesFor(r.id) = {}

\* The rule forwards verbatim: FORWARD mode, nothing to replace or to add,
\* every presentation switch off.
PlainForwardRule(r) ==
  /\ r.FORWARDING_MODE = "FORWARD"
  /\ r.TEXT_REPLACEMENTS = <<>>
  /\ ~Truthy(r.PREFIX_TEXT)
  /\ ~Truthy(r.SUFFIX_TEXT)
  /\ ~r.REMOVE_BUTTONS
  /\ ~r.REMOVE_CAPTION
  /\ ~r.REMOVE_WEB_PREVIEW
  /\ ~r.SILENT_FORWARDING

\* C6: a matching message that passes the filter chain of a plain FORWARD rule
\* results in exactly one forward_message call and in no send or copy call for
\* that rule.
C6_PlainForwardIsOneForwardCall ==
  (prog = "app" /\ last # NoMsg /\ ~aborted) =>
    \A r \in StoredRules :
      (PlainForwardRule(r) /\ IsMatchingRule(r, last) /\ PassesFilters(r, last)) =>
        /\ Cardinality(DispatchesFor(r.id)) = 1
        /\ \A i \in DispatchesFor(r.id) : calls[i].kind = "forward_message"

\* The text of the message holds a find string of the rule, or the rule adds
\* a prefix or a suffix.
TextModifiedBy(r, m) ==
  \/ /\ Body(m) # <<>>
     /\ \E k \in DOMAIN r.TEXT_REPLACEMENTS : Contains(Body(m), r.TEXT_REPLACEMENTS[k][1])
  \/ Truthy(r.PREFIX_TEXT)
  \/ Truthy(r.SUFFIX_TEXT)

\* C7: src/app.py calls forward_message only for a rule in FORWARD mode whose
\* replacements, prefix and suffix leave the text as it is and whose
\* REMOVE_BUTTONS, REMOVE_CAPTION and REMOVE_WEB_PREVIEW are all off.
C7_ForwardOnlyWhenVerbatim ==
  prog = "app" =>
    \A i \in DOMAIN calls :
      calls[i].kind = "forward_message" =>
        LET r == get_rule_by_id(rules, calls[i].rule)
        IN  /\ r.FORWARDING_MODE = "FORWARD"
            /\ ~TextModifiedBy(r, calls[i].msg)
            /\ ~r.REMOVE_BUTTONS
            /\ ~r.REMOVE_CAPTION
            /\ ~r.REMOVE_WEB_PREVIEW

\* A rule with a replacement map forwarded a message its map leaves alone.
C7_Witness ==
  /\ prog = "app"
  /\ \E i \in DOMAIN calls :
       /\ calls[i].kind = "forward_message"
       /\ get_rule_by_id(rules, calls[i].rule).TEXT_REPLACEMENTS # <<>>

\* C8: composing header and footer is idempotent: composing the composed
\* text again, with the same header and footer, leaves it as it is.
C8_ComposeIdempotent ==
  lab.fn \in {"bot_compose", "mem_compose"} => lab.out2 = lab.out

ReplaceRan == lab.fn \in {"bot_replace", "app_replace", "mem_replace"}

\* The characters of a string.
Chars(s) == {s[i] : i \in DOMAIN s}

\* C9 as written: whenever the replacement does not contain the find string,
\* the result of the replacement contains no occurrence of the find string.
C9_NoOccurrenceLeft ==
  (ReplaceRan /\ lab.find # <<>> /\ ~Contains(lab.replace, lab.find)) =>
    ~Contains(lab.out, lab.find)

\* C9: every occurrence is replaced, in src/bot.py, src/app.py and
\* src/src/app.py: "foo foo" with {foo: bar} gives "bar bar", and a result
\* holds no occurrence of the find string whenever the replacement is not
\* empty and shares no character with the find string.
C9_ReplaceAll ==
  /\ (ReplaceRan /\ lab.text = T_foo_foo /\ lab.find = W_foo /\ lab.replace = W_bar) =>
       lab.out = <<"b", "a", "r", " ", "b", "a", "r">>
  /\ ( /\ ReplaceRan
       /\ lab.find # <<>>
       /\ lab.replace # <<>>
       /\ Chars(lab.find) \cap Chars(lab.replace) = {} ) =>
       ~Contains(lab.out, lab.find)

\* apply_replacements of src/bot.py turned "foo foo" into "bar bar".
C9_Witness ==
  /\ lab.fn = "bot_replace"
  /\ lab.text = T_foo_foo
  /\ lab.find = W_foo
  /\ lab.replace = W_bar
  /\ lab.out = <<"b", "a", "r", " ", "b", "a", "r">>

\* None of the other filters of the rule stops the message.
NoOtherFilterBlocks(r, m) ==
  /\ \A k \in DOMAIN r.WORD_BLACKLIST : ~Contains(Lower(Body(m)), Lower(r.WORD_BLACKLIST[k]))
  /\ ~(r.BLOCK_SERVICE_MESSAGES /\ m.service)
  /\ ~(r.BLOCK_FORWARDS /\ m.forward_date)
  /\ ~(r.BLOCK_REPLIES /\ m.reply_to_message)

\* C10: whitelist and handle matching are case-insensitive: "big SALE today"
\* posted in the channel with handle chan, in any letter case, is dispatched
\* for a rule (src/app.py) or a configuration (src/bot.py) with source "@chan"
\* and whitelist ["sale"] when no other filter blocks; in src/app.py unless an
\* earlier rule's failure ended the invocation.
C10_CaseInsensitiveMatch ==
  (last # NoMsg /\ last.text = T_big_SALE_today /\ Truthy(last.chat.username)
     /\ Lower(last.chat.username) = <<"c", "h", "a", "n">>) =>
    /\ (prog = "app" /\ ~aborted) =>
         \A r \in StoredRules :
           ( /\ r.IS_ACTIVE
             /\ Truthy(r.DESTINATION_CHAT_ID)
             /\ r.SOURCE_CHAT_ID = S_at_chan
             /\ r.WORD_WHITELIST = <<<<"s", "a", "l", "e">>>>
             /\ NoOtherFilterBlocks(r, last) ) => DispatchesFor(r.id) # {}
    /\ ( /\ prog = "bot"
         /\ cfg.active
         /\ cfg.source_chat = S_at_chan
         /\ Truthy(cfg.target_chat)
         /\ Len(cfg.whitelist) = 1
         /\ Lower(cfg.whitelist[1]) = <<"s", "a", "l", "e">>
         /\ cfg.blacklist = <<>>
         /\ cfg.schedule_time = <<>>
         /\ cfg.delay_seconds = 0 ) => DispatchCalls # {}

\* The rule with source "@chan" and whitelist ["sale"] was dispatched for
\* "big SALE today" posted in the channel whose handle is written "Chan".
C10_Witness ==
  /\ prog = "app"
  /\ last # NoMsg
  /\ last.text = T_big_SALE_today
  /\ last.chat.username # <<"c", "h", "a", "n">>
  /\ \E r \in StoredRules :
       /\ r.SOURCE_CHAT_ID = S_at_chan
       /\ r.WORD_WHITELIST = <<<<"s", "a", "l", "e">>>>
       /\ DispatchesFor(r.id) # {}

\* A time of day in minutes, and the window test as the specification
\* describes it: for start > end the window crosses midnight.
MinuteOfDay(h, m) == h * 60 + m

InWindow(t, start, end) ==
  IF start > end THEN t >= start \/ t < end ELSE t >= start /\ t < end

\* C11: the schedule check is a window test that is aware of wraparound: with
\* the schedule starting at 22:00 (and ending at 06:00) forwarding is held
\* back at 23:30 and allowed at 12:00, in general exactly at the times t with
\* t >= start or t < end.
C11_OvernightWindow ==
  (lab.fn = "message_router" /\ lab.schedule_time = S_2200) =>
    (lab.out <=> InWindow(MinuteOfDay(lab.hour, lab.minute),
                          MinuteOfDay(22, 0), MinuteOfDay(6, 0)))

\* The entries of a source spec, split at the commas and trimmed of blanks.
TrimmedEntries(source) ==
  LET fields == Split(IF source = None THEN <<>> ELSE source, ",")
  IN  {Strip(fields[i]) : i \in DOMAIN fields}

\* The entry names the chat: it is the chat's id written in decimal, or '@'
\* followed by the chat's handle in any letter case.
EntryNames(e, chat) ==
  \/ e = IntStr(chat.id)
  \/ /\ e # <<>>
     /\ Head(e) = "@"
     /\ chat.username # None
     /\ Lower(Tail(e)) = Lower(chat.username)

\* C12: in forward_message a source spec matches the inbound chat when one of
\* its comma-separated entries, trimmed, is the chat's numeric id as a string
\* or is '@' followed by the chat's handle ignoring letter case; and a chat
\* without a handle is matched by no '@' entry, only by its id.
C12_SourceMatching ==
  lab.fn = "forward_message" =>
    /\ (\E e \in TrimmedEntries(lab.source) : EntryNames(e, lab.chat)) => lab.out
    /\ (lab.chat.username = None /\ lab.out) =>
         \E e \in TrimmedEntries(lab.source) : e = IntStr(lab.chat.id)

\* The chat written "Chan" was matched by the second entry of a list typed
\* with a blank after the comma, an '@' handle in capitals.
C12_Witness ==
  /\ lab.fn = "forward_message"
  /\ lab.chat = ChanChat
  /\ lab.source = <<"-","1","0","0","3","3","3">> \o <<",", " ">> \o <<"@","C","H","A","N">>
  /\ lab.out

\* C13: when no entry matches exactly, the source still matches if the
\* chat's numeric id is a substring of an entry or an entry is a substring of
\* the chat's numeric id.
C13_SubstringFallback ==
  ( /\ lab.fn = "forward_message"
    /\ \E e \in TrimmedEntries(lab.source) :
         /\ e # <<>>
         /\ Contains(e, IntStr(lab.chat.id)) \/ Contains(IntStr(lab.chat.id), e) ) => lab.out

\* C14: deleting a rule takes effect at once: after a delete_rule_<id>
\* callback has committed, no update handled later issues a call on behalf of
\* the deleted rule.
C14_DeletedRuleNeverDispatched ==
  prog = "app" => \A i \in DOMAIN calls : calls[i].rule \notin removed

\* A message the deleted rule matched and let through was handled after the
\* deletion, and only the remaining rule was dispatched.
C14_Witness ==
  /\ prog = "app"
  /\ last # NoMsg
  /\ DispatchCalls # {}
  /\ \E store \in SeedStores : \E r \in Range(store) :
       /\ r.id \in removed
       /\ ~HasRule(rules, r.id)
       /\ IsMatchingRule(r, last)
       /\ PassesFilters(r, last)
       /\ Plan(r, last) \in DispatchKinds

\* The update handled last got as far as the duplicate check.
MemHandled == prog = "mem" /\ last # NoMsg /\ ReachesDupCheck(mem, last)

C16_MissingDestinationSurfaced ==
  (prog = "app" /\ last # NoMsg) =>
    \A r \in StoredRules :
      (r.IS_ACTIVE /\ ~Truthy(r.DESTINATION_CHAT_ID) /\ is_match(r, last)) =>
        \E i \in DOMAIN calls : calls[i].kind = "notify" /\ calls[i].rule = r.id

\* C17: when the transport call for a rule raises, forward_message issues no
\* second dispatch for that rule and message, sends next a notification to
\* the admin id that holds the rule's id and the error detail, and leaves the
\* stored rules as they were.
C17_FailureNotifiesWithoutRetry ==
  /\ [](prog = "app" =>
          \A i \in DispatchCalls : calls[i].raised =>
            /\ DispatchesFor(calls[i].rule) = {i}
            /\ i + 1 \in DOMAIN calls
            /\ calls[i + 1].kind = "notify"
            /\ calls[i + 1].rule = calls[i].rule
            /\ calls[i + 1].msg = calls[i].msg
            /\ calls[i + 1].dest = IntStr(FORCE_ADMIN_ID)
            /\ Contains(calls[i + 1].text, S_ID \o IntStr(calls[i].rule))
            /\ Contains(calls[i + 1].text, E_Forbidden))
  /\ [][(prog = "app" /\ inbox # NoMsg /\ inbox' = NoMsg) => rules' = rules]_vars

\* The transport call of the second of two matching rules raised; the first
\* rule's dispatch went through.
C17_Witness ==
  /\ prog = "app"
  /\ last # NoMsg
  /\ ~aborted
  /\ \E i, j \in DispatchCalls : calls[i].raised /\ ~calls[j].raised /\ j < i

\* C18: after every successful dispatch for a rule the rule is persisted with
\* its forwardedCount incremented and its lastTriggeredAt set: handling an
\* update that dispatched successfully for a rule changes that rule's row.
C18_DispatchUpdatesRuleStats ==
  [][(prog = "app" /\ inbox # NoMsg /\ inbox' = NoMsg) =>
       \A i \in DOMAIN calls' :
         (calls'[i].kind \in DispatchKinds /\ ~calls'[i].raised) =>
           get_rule_by_id(rules', calls'[i].rule) # get_rule_by_id(rules, calls'[i].rule)]_vars

\* C19: in src/bot.py no send or forward call is issued while the
\* configuration's active flag is false, the messages waiting in a delay job
\* or in PENDING_MESSAGES when /pause ran included.
C19_PausedNeverDispatches ==
  (prog = "bot" /\ ~cfg.active) => DispatchCalls = {}

\* C20: in src/app.py a callback query or a conversation text input from a
\* chat other than the admin's creates, modifies and deletes no rule: the
\* store after such an update is the store before it.
C20_OnlyAdminMutates ==
  [][(prog = "admin" /\ nops' # nops /\ actor' # FORCE_ADMIN_ID) => rules' = rules]_vars

\* Another chat pressed the delete button of a rule that is still stored,
\* after the admin had changed the store.
C20_Witness ==
  /\ prog = "admin"
  /\ actor # FORCE_ADMIN_ID
  /\ lab.fn = "callback"
  /\ StartsWithParts(lab.data, <<"delete", "rule">>)
  /\ HasRule(rules, IntOfPart(lab.data[3]))
  /\ rules \notin {<<>>, StoreForward}

\* The whitelist of the rule or configuration a logged call was issued for.
WhitelistOf(i) ==
  IF prog = "app" THEN get_rule_by_id(rules, calls[i].rule).WORD_WHITELIST ELSE cfg.whitelist

\* None of the steps before the whitelist step skips rule r for m, and the
\* steps after it leave something to send.
OnlyWhitelistDecides(r, m) ==
  /\ IsMatchingRule(r, m)
  /\ NoOtherFilterBlocks(r, m)
  /\ ~(r.BLOCK_MEDIA /\ is_pure_media(m))
  /\ ~(r.BLOCK_LINKS /\ (Contains(Lower(Body(m)), S_http) \/ Contains(Lower(Body(m)), S_tme)))
  /\ ~(r.BLOCK_USERNAMES /\ HasMention(Lower(Body(m))))
  /\ ~SkippedAsEmpty(r, m)
  /\ TransportCall(r, m) # "none"

\* C21: a rule (or configuration) with a non-empty whitelist dispatches a
\* message only if a whitelist term occurs in the lower-cased text or
\* caption, so that media without caption is skipped; and a rule with an
\* empty whitelist that no other step skips is dispatched.
C21_WhitelistFilter ==
  /\ \A i \in DispatchCalls :
       WhitelistOf(i) # <<>> =>
         \E k \in DOMAIN WhitelistOf(i) :
           Contains(Lower(Body(calls[i].msg)), Lower(WhitelistOf(i)[k]))
  /\ (prog = "app" /\ last # NoMsg /\ ~aborted) =>
       \A r \in StoredRules :
         (r.WORD_WHITELIST = <<>> /\ OnlyWhitelistDecides(r, last)) => DispatchesFor(r.id) # {}

\* A photo without caption was handled and the matching rule, which has a
\* whitelist and no other filter that would skip the photo, sent nothing.
C21_Witness ==
  /\ prog = "app"
  /\ last # NoMsg
  /\ last.media = "photo"
  /\ Body(last) = <<>>
  /\ \E r \in StoredRules :
       /\ r.WORD_WHITELIST # <<>>
       /\ OnlyWhitelistDecides(r, last)
       /\ DispatchesFor(r.id) = {}

\* A URL in any letter case: "http://", "https://" or "www." followed by a
\* character that is not a space.
UrlAnyCase(text) == URL_RE_search(Lower(text))

\* C22: the link and mention filters scan the text without regard to case:
\* with the link flag set a text holding a URL in any letter case is skipped,
\* with the mention flag set a text holding an @handle is skipped, and with
\* neither flag set the step skips nothing; in forward_message and in
\* process_and_send.
C22_LinkMentionCaseInsensitive ==
  (prog = "links" /\ lab.fn \in {"forward_message", "process_and_send"}) =>
    /\ (lab.block_links /\ UrlAnyCase(lab.text)) => lab.out
    /\ (lab.block_usernames /\ HasMention(lab.text)) => lab.out
    /\ (~lab.block_links /\ ~lab.block_usernames) => ~lab.out

\* Every occurrence of the one-letter string f in text replaced by r.
RECURSIVE LetterSubst(_, _, _)
LetterSubst(text, f, r) ==
  IF text = <<>> THEN <<>>
  ELSE (IF <<Head(text)>> = f THEN r ELSE <<Head(text)>>) \o LetterSubst(Tail(text), f, r)

\* The pairs in insertion order: in a dict (src/app.py, src/bot.py) a key
\* stored twice keeps its first place and its last value; the list of
\* src/src/app.py keeps both pairs.
PairsInOrder ==
  IF lab.fn # "mem_apply_replacements" /\ lab.find1 = lab.find2
  THEN <<<<lab.find1, lab.replace2>>>>
  ELSE <<<<lab.find1, lab.replace1>>, <<lab.find2, lab.replace2>>>>

RECURSIVE FoldReplace(_, _)
FoldReplace(text, pairs) ==
  IF pairs = <<>> THEN text
  ELSE FoldReplace(LetterSubst(text, Head(pairs)[1], Head(pairs)[2]), Tail(pairs))

\* C23: the final body is the left fold of replace-all over the pairs in
\* insertion order, each pair working on the string the earlier pairs
\* produced: a->b then b->c turns "a" into "c".
C23_ReplacementsFoldInOrder ==
  (prog = "pairs" /\ lab.fn \in {"forward_message", "apply_replacements", "mem_apply_replacements"})
    => lab.out = FoldReplace(lab.text, PairsInOrder)

\* forward_message turned "a" into "c" with the pairs a->b, b->c.
C23_Witness ==
  /\ prog = "pairs"
  /\ lab.fn = "forward_message"
  /\ lab.text = <<"a">>
  /\ lab.find1 = <<"a">> /\ lab.replace1 = <<"b">>
  /\ lab.find2 = <<"b">> /\ lab.replace2 = <<"c">>
  /\ lab.out = <<"c">>

\* Some pair of the fold changes the string it is applied to.
RECURSIVE SomePairAlters(_, _)
SomePairAlters(text, pairs) ==
  IF pairs = <<>> THEN FALSE
  ELSE \/ LetterSubst(text, Head(pairs)[1], Head(pairs)[2]) # text
       \/ SomePairAlters(LetterSubst(text, Head(pairs)[1], Head(pairs)[2]), Tail(pairs))

\* C24: text_modified is true if and only if some replacement altered the
\* text or the prefix or the suffix is non-empty.
C24_ModifiedIffAltered ==
  (prog = "pairs" /\ lab.fn = "text_modified") =>
    (lab.modified <=> \/ SomePairAlters(lab.text, PairsInOrder)
                      \/ lab.prefix # <<>>
                      \/ lab.suffix # <<>>)

PlanDone == prog = "plan" /\ lab.fn = "forward_message"

\* The dispatch calls of the run.
PlanCalls == {i \in DOMAIN lab.calls : lab.calls[i].kind \in DispatchKinds}

HasAttachment(m) == m.media # "none"

\* C25: a copy call for a message with an attachment has no caption when
\* REMOVE_CAPTION is set and the final body as its caption (none when the
\* body is blank) when it is not; the text sent for a pure-text message is
\* the one sent with REMOVE_CAPTION off.
C25_RemoveCaptionDropsCaption ==
  PlanDone =>
    \A i \in PlanCalls :
      LET body == TextProcessing(lab.rule, lab.msg).text
      IN  /\ (lab.calls[i].kind = "copy_message" /\ HasAttachment(lab.msg)) =>
                IF lab.rule.REMOVE_CAPTION THEN lab.calls[i].text = None
                ELSE \/ lab.calls[i].text = body
                     \/ ~NonBlank(body) /\ lab.calls[i].text = None
          /\ lab.calls[i].kind = "send_message" =>
                lab.calls[i].text = TextProcessing([lab.rule EXCEPT !.REMOVE_CAPTION = FALSE],
                                                   lab.msg).text

\* C27: a pair that passes source matching and the filter chain (and is not
\* skipped as empty) ends with exactly one dispatch call, delivered or
\* failed.
C27_OneTransitionPerPair ==
  (/\ PlanDone
   /\ IsMatchingRule(lab.rule, lab.msg)
   /\ PassesFilters(lab.rule, lab.msg)
   /\ ~SkippedAsEmpty(lab.rule, lab.msg)) => Cardinality(PlanCalls) = 1

\* Event j ends the processing of the rule whose filters event i passed.
Completes(i, j) ==
  /\ i < j
  /\ lab.log[j].ev = "done"
  /\ lab.log[j].msg = lab.log[i].msg
  /\ lab.log[j].rule = lab.log[i].rule

\* C26: a rule with FORWARD_DELAY_SECONDS = d > 0 gets its transport call
\* only after a pause of d, and once a rule has passed its filters the
\* worker takes no step for another rule or another update before that
\* rule's pause and dispatch are over.
C26_DelayedRulesRunSequentially ==
  prog = "seq" =>
    /\ \A j \in DOMAIN lab.log :
         (lab.log[j].ev = "done" /\ lab.log[j].kind \in DispatchKinds) =>
           lab.log[j].waited >= get_rule_by_id(rules, lab.log[j].rule).FORWARD_DELAY_SECONDS
    /\ \A i, j \in DOMAIN lab.log :
         (/\ i < j
          /\ lab.log[i].ev = "filter"
          /\ ~Completes(i, j)) => \E k \in (i + 1)..(j - 1) : Completes(i, k)

\* A second post arrived while a delayed rule slept; the rule was
\* dispatched after its pause, and only then came the next rule and the
\* second post.
C26_Witness ==
  /\ prog = "seq"
  /\ \E i \in DOMAIN lab.log :
       /\ lab.log[i].ev = "filter"
       /\ get_rule_by_id(rules, lab.log[i].rule).FORWARD_DELAY_SECONDS = SeqDelay
       /\ \E k \in (i + 1)..Len(lab.log) :
            /\ Completes(i, k)
            /\ lab.log[k].kind \in DispatchKinds
            /\ lab.log[i].queued = 0
            /\ lab.log[k].queued > 0
            /\ \E n \in (k + 1)..Len(lab.log) :
                 /\ lab.log[n].ev = "filter"
                 /\ lab.log[n].msg = lab.log[i].msg
                 /\ \E b \in (n + 1)..Len(lab.log) :
                      /\ lab.log[b].ev = "begin"
                      /\ lab.log[b].msg # lab.log[i].msg

\* The text just handled was a rule name and set_rule_name stored a rule.
RuleJustCreated ==
  /\ prog = "admin"
  /\ lab.fn = "text"
  /\ lab.was = "SET_RULE_NAME"
  /\ Len(rules) > lab.had

\* The rules that get a transport call when m comes in.
CalledFor(m) ==
  UNION {{res.calls[i].rule : i \in DOMAIN res.calls} :
           res \in {forward_message(all_rules, m, {}, {}) : all_rules \in get_all_rules(rules)}}

\* C28: a rule set_rule_name has just created is active, in COPY mode, with
\* delay 0, no replacements, empty lists, no source and no destination; a
\* rule that lacks its source or its destination gets no dispatch for any
\* inbound message.
C28_NewRuleInertUntilRouted ==
  prog = "admin" =>
    /\ RuleJustCreated =>
         LET r == rules[Len(rules)]
         IN  /\ r.IS_ACTIVE
             /\ r.FORWARDING_MODE = "COPY"
             /\ r.FORWARD_DELAY_SECONDS = 0
             /\ r.TEXT_REPLACEMENTS = <<>>
             /\ r.WORD_BLACKLIST = <<>>
             /\ r.WORD_WHITELIST = <<>>
             /\ r.SOURCE_CHAT_ID = None
             /\ r.DESTINATION_CHAT_ID = None
    /\ \A r \in StoredRules :
         (~Truthy(r.SOURCE_CHAT_ID) \/ ~Truthy(r.DESTINATION_CHAT_ID)) =>
           \A m \in Messages : r.id \notin CalledFor(m)

\* A rule was just created next to a routed rule that dispatches a post the
\* new rule gets nothing for.
C28_Witness ==
  /\ RuleJustCreated
  /\ \E m \in Messages : CalledFor(m) # {} /\ rules[Len(rules)].id \notin CalledFor(m)

\* One numeric chat id (digits, with or without a leading minus) or one
\* @handle.
SingleChatId(s) ==
  /\ \A i \in DOMAIN s : s[i] # ","
  /\ \/ IsDigitStr(s)
     \/ s # <<>> /\ Head(s) = "-" /\ IsDigitStr(Tail(s))
     \/ Len(s) > 1 /\ Head(s) = "@"

\* C29: a rule's DESTINATION_CHAT_ID is unset or a single chat identifier.
C29_DestinationIsSingleChat ==
  prog = "admin" =>
    \A r \in StoredRules :
      r.DESTINATION_CHAT_ID = None \/ SingleChatId(r.DESTINATION_CHAT_ID)

\* Lowercase, trimmed, non-empty terms, none of them twice.
CleanList(words) ==
  /\ \A i \in DOMAIN words :
       /\ words[i] # <<>>
       /\ words[i] = Lower(words[i])
       /\ words[i] = Strip(words[i])
  /\ \A i, j \in DOMAIN words : words[i] = words[j] => i = j

\* The text names one word.
OneWord(text) == \A i \in DOMAIN text : text[i] # ","

\* C30: WORD_BLACKLIST and WORD_WHITELIST hold only lowercase, trimmed,
\* non-empty terms without duplicates; adding a word already present leaves
\* the list as it was, and clearing empties it.
C30_WordListsNormalised ==
  prog = "words" =>
    /\ \A r \in StoredRules : CleanList(r.WORD_BLACKLIST) /\ CleanList(r.WORD_WHITELIST)
    /\ (/\ lab.fn = "set_list_word"
        /\ OneWord(lab.text)
        /\ Lower(Strip(lab.text)) \in Range(lab.before))
         => get_rule_by_id(rules, 1)[ListAttr(lab.list)] = lab.before
    /\ lab.fn = "clear" => get_rule_by_id(rules, 1)[ListAttr(lab.list)] = <<>>

\* " Sale" was added to a list that already held "sale" and "spam".
C30_Witness ==
  /\ prog = "words"
  /\ lab.fn = "set_list_word"
  /\ lab.text = W_Sale
  /\ Len(lab.before) = 2
  /\ Lower(Strip(lab.text)) \in Range(lab.before)
  /\ get_rule_by_id(rules, 1)[ListAttr(lab.list)] = lab.before

\* The text or caption of a message.
MemBody(m) == IF Truthy(m.text) THEN m.text ELSE OrEmpty(m.caption)

\* C31: handle_incoming dispatches no message whose text or caption holds a
\* blacklist value, and with a non-empty whitelist only messages that hold
\* a whitelist value.
C31_MemListsFilter ==
  prog = "mem" =>
    \A i \in DOMAIN calls :
      /\ \A k \in DOMAIN mem.blacklist :
           ~Contains(Lower(MemBody(calls[i].msg)), Lower(mem.blacklist[k]))
      /\ mem.whitelist # <<>> =>
           \E k \in DOMAIN mem.whitelist :
             Contains(Lower(MemBody(calls[i].msg)), Lower(mem.whitelist[k]))

\* The choices of the delay keyboard (lines 518-520): the part of the
\* callback data and the seconds it names.
DelayChoices == {<<"0", 0>>, <<"5", 5>>, <<"15", 15>>, <<"30", 30>>, <<"60", 60>>}

\* The rule whose id closes the callback data pressed last.
PressedId == lab.data[Len(lab.data)]
PressedKnown == IsIntPart(PressedId) /\ HasRule(lab.before, IntOfPart(PressedId))

\* C32: in response to menu_schedule_<rule id> the delay keyboard is shown,
\* and a press of set_delay_<n>_<rule id> stores n as the rule's
\* FORWARD_DELAY_SECONDS.
C32_DelayButtonsSetDelay ==
  prog = "menu" =>
    /\ (StartsWithParts(lab.data, <<"menu", "schedule">>) /\ PressedKnown) =>
         \A c \in DelayChoices : <<"set", "delay", c[1], PressedId>> \in lab.shown
    /\ \A i \in DOMAIN rules : \A c \in DelayChoices :
         LET res == handle_callback(rules, ud[FORCE_ADMIN_ID], FORCE_ADMIN_ID,
                                    <<"set", "delay", c[1], IdPart(rules[i].id)>>)
         IN  get_rule_by_id(res.rules, rules[i].id).FORWARD_DELAY_SECONDS = c[2]

\* The conversation states in which the admin is asked for a list word.
WordStates == {"SET_BLACKLIST_WORD", "SET_WHITELIST_WORD"}

\* No walk over the keyboards brings the admin's conversation into one of
\* the word states.
WordStatesUnreached == prog = "menu" => conv[FORCE_ADMIN_ID] \notin WordStates

\* C33: the walk rule settings -> text menu -> menu_<list>_<id> ->
\* add_<list>_word_<id> uses only buttons the keyboards show: after a press
\* of menu_blacklist_<id> or menu_whitelist_<id> the message offers the
\* add_<list>_word_<id> button that leads to the word state.
C33_WordStatesReachableByKeyboard ==
  prog = "menu" =>
    \A which \in {"blacklist", "whitelist"} :
      (StartsWithParts(lab.data, <<"menu", which>>) /\ PressedKnown) =>
        /\ <<"add", which, "word", PressedId>> \in lab.shown
        /\ handle_callback(rules, ud[FORCE_ADMIN_ID], FORCE_ADMIN_ID,
                           <<"add", which, "word", PressedId>>).state \in WordStates

\* No two rows of the table carry the same rule_name.
NamesUnique(store) ==
  \A i, j \in DOMAIN store : store[i].rule_name = store[j].rule_name => i = j

NameStored(store, rule_name) == \E i \in DOMAIN store : store[i].rule_name = rule_name

\* The step is set_rule_name run for a text of the admin.
NamingStep ==
  /\ prog = "admin"
  /\ nops' # nops
  /\ lab'.fn = "text"
  /\ lab'.was = "SET_RULE_NAME"
  /\ actor' = FORCE_ADMIN_ID

\* C34: rule names stay unique; set_rule_name with an empty or an already
\* stored name changes no row and keeps the conversation in SET_RULE_NAME,
\* and with a new name it adds exactly one row of that name and ends the
\* conversation.
C34_NamesUniqueAndCreateEnds ==
  [][/\ NamesUnique(rules) => NamesUnique(rules')
     /\ NamingStep =>
          LET rule_name == Strip(lab'.data) IN
          IF rule_name = <<>> \/ NameStored(rules, rule_name)
          THEN rules' = rules /\ conv'[FORCE_ADMIN_ID] = "SET_RULE_NAME"
          ELSE /\ Len(rules') = Len(rules) + 1
               /\ SubSeq(rules', 1, Len(rules)) = rules
               /\ rules'[Len(rules')].rule_name = rule_name
               /\ conv'[FORCE_ADMIN_ID] = "END"]_vars

\* What set_rule_name does keep: unique names, no change for a refused
\* name, one new row for a new one.
NamesUniqueAndCreateOnce ==
  [][/\ NamesUnique(rules) => NamesUnique(rules')
     /\ NamingStep =>
          LET rule_name == Strip(lab'.data) IN
          /\ conv'[FORCE_ADMIN_ID] = "SET_RULE_NAME"
          /\ IF rule_name = <<>> \/ NameStored(rules, rule_name)
             THEN rules' = rules
             ELSE /\ Len(rules') = Len(rules) + 1
                  /\ SubSeq(rules', 1, Len(rules)) = rules
                  /\ rules'[Len(rules')].rule_name = rule_name]_vars

\* The toggle buttons of the keyboards (lines 216-292) by the words between
\* toggle_ and the rule id, with the column each one names.
ToggleButtons ==
  {<<<<"block", "links">>, "BLOCK_LINKS">>, <<<<"block", "usernames">>, "BLOCK_USERNAMES">>,
   <<<<"active">>, "IS_ACTIVE">>,
   <<<<"block", "media">>, "BLOCK_MEDIA">>, <<<<"block", "forwards">>, "BLOCK_FORWARDS">>,
   <<<<"remove", "buttons">>, "REMOVE_BUTTONS">>, <<<<"remove", "caption">>, "REMOVE_CAPTION">>,
   <<<<"silent", "forwarding">>, "SILENT_FORWARDING">>,
   <<<<"block", "service", "messages">>, "BLOCK_SERVICE_MESSAGES">>,
   <<<<"block", "replies">>, "BLOCK_REPLIES">>}

\* The store with column `flag` of rule rule_id inverted and nothing else
\* changed.
Flipped(store, rule_id, flag) ==
  [i \in DOMAIN store |->
     IF store[i].id = rule_id THEN [store[i] EXCEPT ![flag] = ~store[i][flag]] ELSE store[i]]

\* The admin's last press was a toggle button.
TogglePressed == prog = "menu" /\ StartsWithParts(lab.data, <<"toggle">>)

\* C35: a toggle_<flag>_<rule id> press from a keyboard inverts exactly the
\* named boolean column of the named rule, every other column and every
\* other rule staying as they were, and the same press once more brings the
\* store back.
C35_ToggleFlipsExactlyOneFlag ==
  TogglePressed =>
    \E b \in ToggleButtons :
      /\ lab.data = <<"toggle">> \o b[1] \o <<PressedId>>
      /\ PressedKnown
      /\ rules = Flipped(lab.before, IntOfPart(PressedId), b[2])
      /\ rules # lab.before
      /\ handle_callback(rules, ud[FORCE_ADMIN_ID], FORCE_ADMIN_ID, lab.data).rules = lab.before

\* The admin switched BLOCK_SERVICE_MESSAGES of rule 1 off from the advanced
\* menu.
C35_Witness ==
  /\ TogglePressed
  /\ lab.data = <<"toggle", "block", "service", "messages", "1">>
  /\ get_rule_by_id(lab.before, 1).BLOCK_SERVICE_MESSAGES
  /\ ~get_rule_by_id(rules, 1).BLOCK_SERVICE_MESSAGES

\* C36: every message appended to PENDING_MESSAGES is still in
\* PENDING_MESSAGES, or has been handed to process_and_send, or is in the
\* batch schedule_checker is handing over.
C36_NoQueuedMessageLost ==
  prog = "race" =>
    lab.appended \subseteq
      Range(lab.lists[lab.global]) \cup Range(lab.handed) \cup Range(lab.checker.pending)

\* The messages handed over are those queued, once each and in the order
\* of their arrival; the others are still in PENDING_MESSAGES.
HandedOnceInOrder == prog = "sched" => lab.handed \o lab.queue = lab.queued

\* C37: every message queued in PENDING_MESSAGES while a schedule time is
\* configured is eventually handed to process_and_send, whatever commands
\* the admin sends, as long as the repeating checker keeps ticking.
C37_QueuedEventuallyHanded ==
  \A k \in SchedPosts :
    (prog = "sched" /\ k \in Range(lab.queue)) ~> (k \in Range(lab.handed))

\* C38: once admin_id is set no command of any user changes it, and from
\* then on a command of any other user leaves the whole configuration as it
\* is.
C38_AdminIdFixedOnceSet ==
  [][(prog = "owner" /\ cfg.admin_id # NoAdmin) =>
       /\ cfg'.admin_id = cfg.admin_id
       /\ actor' # cfg.admin_id => cfg' = cfg]_vars

\* User 7 took the unset admin_id and set a source; the last command came
\* from the other user.
C38_Witness ==
  /\ prog = "owner"
  /\ nops = MaxOwnerCmds
  /\ cfg.admin_id = 7
  /\ cfg.source_chat # <<>>
  /\ actor = FORCE_ADMIN_ID

\* The last step was handle_incoming for the update last.
MemUpdate == prog = "mem" /\ last # NoMsg

\* The entry of the update's key is the one it had before the update, if
\* any: the update has neither added nor renewed it.
EntryNotWritten ==
  unique_key(last) \in DOMAIN mem.forwarded_cache =>
    mem.forwarded_cache[unique_key(last)] \in seen.before.sent

\* C39: a key is in forwarded_cache only with the time of a dispatch for it
\* that returned without exception; an update whose transport call raised,
\* and an update that was blocked, write no entry; and after a lookup no
\* entry older than the ttl is left.
C39_CacheHoldsOnlyDelivered ==
  prog = "mem" =>
    /\ \A key \in DOMAIN mem.forwarded_cache :
         key \in DOMAIN seen.sent /\ seen.sent[key] = mem.forwarded_cache[key]
    /\ (MemUpdate /\ calls # <<>> /\ calls[1].raised) => EntryNotWritten
    /\ (MemUpdate /\ ReachesDupCheck(mem, last)
          /\ is_blocked_message(MemBody(last), mem.blocked)) =>
         calls = <<>> /\ EntryNotWritten
    /\ (MemUpdate /\ ReachesDupCheck(mem, last) /\ mem.dup_check) =>
         \A key \in DOMAIN mem.forwarded_cache :
           ~(clock - mem.forwarded_cache[key] > cache_ttl)

\* A post was delivered more than an hour ago; the lookup for another post
\* has removed its entry, and the transport call for that post raised,
\* leaving no entry for it.
C39_Witness ==
  /\ MemUpdate
  /\ calls # <<>>
  /\ calls[1].raised
  /\ unique_key(last) \notin DOMAIN mem.forwarded_cache
  /\ \E key \in DOMAIN seen.sent :
       /\ clock - seen.sent[key] > cache_ttl
       /\ key \notin DOMAIN mem.forwarded_cache

====
